---------------------------- MODULE Spec2Model ----------------------------
(***************************************************************************)
(* Model of the document field-extraction pipeline of smart-traffic-back:  *)
(*   - textPreprocessingService.js : normalizeHebrewText, editDistance,    *)
(*       isFuzzyMatch, detectFieldTypes, extractValuePatterns,             *)
(*       preprocessOCRText                                                 *)
(*   - aiFieldExtractionService.js : validateAIExtraction,                 *)
(*       validateFieldValue, combineExtractionResults,                     *)
(*       validateRequiredFields, extractFieldsWithAI                       *)
(*   - ocrService.js : parseOCRTextWithConfidence, createLegacyResult,     *)
(*       extractTextFromDocument                                           *)
(*                                                                         *)
(* Strings are sequences of one-character strings.  Characters that have   *)
(* no printable form carry a symbolic name: "SP" (U+0020), "TAB", "NL",    *)
(* "CTL" (a C0 control character), "BAR" (|), "QUOTE" ('), "BACKTICK",     *)
(* "UNDERSCORE", "DQUOTE" ("), "COMB" (U+0301, combining acute) and        *)
(* "E_ACUTE" (U+00E9); a Hebrew letter carries its Unicode name ("VAV" is  *)
(* U+05D5, "FINAL_MEM" U+05DD).                                            *)
(*                                                                         *)
(* Confidence scores are exact rationals kept as integers, in units of     *)
(* 1/Milli before and 1/FinalOne after combineExtractionResults, so that   *)
(* 0.7*a + 0.3*b and the product with the OCR confidence stay integral.    *)
(***************************************************************************)
EXTENDS Integers, Sequences, FiniteSets, TLC

VARIABLES
    \* normalizer harness
    nPc,            \* "off", "input", "once", "twice"
    nText,          \* raw text handed to normalizeHebrewText
    nOnce,          \* normalizeHebrewText(nText)
    nTwice,         \* normalizeHebrewText(nOnce)
    \* one invocation of extractFieldsWithAI
    aPc,            \* "off", "calling" (awaiting the model), "returned"
    aCompletion,    \* how the external call ended
    aValues,        \* preprocessedText.extractedValues
    aOcrConfidence, \* ocrConfidence, in 1/Milli
    aResult,        \* what extractFieldsWithAI returned
    \* one call of validateRequiredFields
    vPc,            \* "off", "input", "validated"
    vResult,        \* the extraction result handed in
    vMinConfidence, \* minConfidence, in 1/FinalOne
    vGiven,         \* whether the call passed minConfidence
    vValidation,    \* what validateRequiredFields returned
    \* one invocation of extractTextFromDocument
    pPc,            \* "off", "ocr", "model", "fallbackOcr", "returned", "thrown"
    pText,          \* rawText of the first OCR answer
    pOcrConfidence, \* calculateVisionConfidence(result), in 1/Milli
    pValues,        \* preprocessedText.extractedValues
    pCompletion,    \* how the external model call ended
    pAi,            \* aiExtractionResult
    pLegacy,        \* what the last parseOCRTextWithConfidence returned
    pError,         \* what the try block raised: "none", "ocr", "no text"
    pResult,        \* the object returned
    pOcrCalls,      \* calls of client.documentTextDetection so far
    pModelCalls,    \* calls of the external model so far
    pParserRuns,    \* calls of parseOCRTextWithConfidence so far
    \* detectFieldTypes, then extractValuePatterns on one of the lines
    dPc,            \* "off", "input", "detected", "extracted"
    dLines,         \* the lines handed to detectFieldTypes
    dDetected,      \* what detectFieldTypes returned
    dText,          \* the text handed to extractValuePatterns
    dFieldType,     \* the fieldType handed to extractValuePatterns
    dMatches,       \* what extractValuePatterns returned
    \* one call of preprocessOCRText
    qPc,            \* "off", "input", "done"
    qRaw,           \* rawText
    qResult,        \* what preprocessOCRText returned
    \* the controller: one report, one uploadDocument request and the
    \* analyzeDocument requests
    cReport,        \* the row of the reports table
    cUp,            \* the uploadDocument request: where it is, its locals
    cAn             \* the analyzeDocument requests, by request

normVars == <<nPc, nText, nOnce, nTwice>>
aiVars == <<aPc, aCompletion, aValues, aOcrConfidence, aResult>>
valVars == <<vPc, vResult, vMinConfidence, vGiven, vValidation>>

pipeVars == <<pPc, pText, pOcrConfidence, pValues, pCompletion, pAi, pLegacy,
              pError, pResult, pOcrCalls, pModelCalls, pParserRuns>>

detVars == <<dPc, dLines, dDetected, dText, dFieldType, dMatches>>

preVars == <<qPc, qRaw, qResult>>

ctlVars == <<cReport, cUp, cAn>>

vars == <<normVars, aiVars, valVars, pipeVars, detVars, preVars, ctlVars>>

\* ------------------------------------------------------------------ bounds
MaxLen == 3
MaxDetected == 1
MaxLines == 2

\* ------------------------------------------------------- generic helpers
RECURSIVE SeqsUpTo(_, _)
SeqsUpTo(S, n) ==
    IF n = 0 THEN {<<>>}
    ELSE LET shorter == SeqsUpTo(S, n - 1)
         IN  shorter \cup {Append(s, c) : s \in {t \in shorter : Len(t) = n - 1}, c \in S}

RECURSIVE FilterSeq(_, _)
FilterSeq(s, Drop) ==
    IF s = <<>> THEN <<>>
    ELSE IF Head(s) \in Drop THEN FilterSeq(Tail(s), Drop)
         ELSE <<Head(s)>> \o FilterSeq(Tail(s), Drop)

\* ------------------------------------------- textPreprocessingService.js
\* Characters matched by \s and removed by String.prototype.trim.
WhiteSpace == {"SP", "TAB", "NL"}

\* Characters of the class [\x00-\x08\x0B\x0C\x0E-\x1F\x7F].
ControlChars == {"CTL"}

\* String.prototype.normalize('NFC'): a base letter followed by a combining
\* mark it composes with becomes the precomposed letter.
RECURSIVE NormalizeNFC(_)
NormalizeNFC(s) ==
    IF Len(s) < 2 THEN s
    ELSE IF s[1] = "e" /\ s[2] = "COMB"
         THEN <<"E_ACUTE">> \o NormalizeNFC(SubSeq(s, 3, Len(s)))
         ELSE <<s[1]>> \o NormalizeNFC(Tail(s))

\* .replace(/\s+/g, ' ')
RECURSIVE CollapseWhitespace(_)
CollapseWhitespace(s) ==
    IF s = <<>> THEN <<>>
    ELSE IF Head(s) \in WhiteSpace
         THEN IF Len(s) >= 2 /\ s[2] \in WhiteSpace
              THEN CollapseWhitespace(Tail(s))
              ELSE <<"SP">> \o CollapseWhitespace(Tail(s))
         ELSE <<Head(s)>> \o CollapseWhitespace(Tail(s))

RECURSIVE TrimStart(_)
TrimStart(s) ==
    IF s # <<>> /\ Head(s) \in WhiteSpace THEN TrimStart(Tail(s)) ELSE s

RECURSIVE TrimEnd(_)
TrimEnd(s) ==
    IF s # <<>> /\ s[Len(s)] \in WhiteSpace
    THEN TrimEnd(SubSeq(s, 1, Len(s) - 1)) ELSE s

\* A trim that leaves the end of the string alone.
TrimStartOnly(s) == TrimStart(s)

\* String.prototype.trim
Trim(s) == TrimEnd(TrimStart(s))

\* .split('\n'): the sequence of lines between the newlines (never empty).
RECURSIVE SplitLines(_)
SplitLines(s) ==
    IF \A i \in 1..Len(s) : s[i] # "NL" THEN <<s>>
    ELSE LET k == CHOOSE i \in 1..Len(s) :
                     s[i] = "NL" /\ \A j \in 1..(i - 1) : s[j] # "NL"
         IN  <<SubSeq(s, 1, k - 1)>> \o SplitLines(SubSeq(s, k + 1, Len(s)))

\* .join('\n')
RECURSIVE JoinLines(_)
JoinLines(ls) ==
    IF ls = <<>> THEN <<>>
    ELSE IF Len(ls) = 1 THEN ls[1]
         ELSE ls[1] \o <<"NL">> \o JoinLines(Tail(ls))

\* .map(line => line.trim()).filter(line => line.length > 0)
RECURSIVE TrimmedNonEmpty(_)
TrimmedNonEmpty(ls) ==
    IF ls = <<>> THEN <<>>
    ELSE LET t == Trim(Head(ls))
         IN  IF t = <<>> THEN TrimmedNonEmpty(Tail(ls))
             ELSE <<t>> \o TrimmedNonEmpty(Tail(ls))

\* .replace(/[|]/g, 'ו')
BarsToVav(s) == [i \in 1..Len(s) |-> IF s[i] = "BAR" THEN "VAV" ELSE s[i]]

\* .replace(/[`']/g, '')
StripQuotes(s) == FilterSeq(s, {"QUOTE", "BACKTICK"})

\* .replace(/[_]/g, '')
StripUnderscores(s) == FilterSeq(s, {"UNDERSCORE"})

normalizeHebrewText(text) ==
    IF text = <<>> THEN <<>>
    ELSE Trim(StripUnderscores(StripQuotes(BarsToVav(
             JoinLines(TrimmedNonEmpty(SplitLines(
                 CollapseWhitespace(
                     FilterSeq(NormalizeNFC(text), ControlChars)))))))))

\* ------------------------------------------------- normalizer harness
RawChars == {"a", "e", "COMB", "SP", "TAB", "NL", "CTL",
             "BAR", "QUOTE", "BACKTICK", "UNDERSCORE"}

\* Every text of at most MaxLen characters, bare and between two letters.
RawTexts ==
    SeqsUpTo(RawChars, MaxLen)
        \cup {<<"a">> \o m \o <<"a">> : m \in SeqsUpTo(RawChars, MaxLen)}

NormOff ==
    /\ nPc = "off"
    /\ nText = <<>>
    /\ nOnce = <<>>
    /\ nTwice = <<>>

NormInit ==
    /\ nPc = "input"
    /\ nText \in RawTexts
    /\ nOnce = <<>>
    /\ nTwice = <<>>

NormalizeFirst ==
    /\ nPc = "input"
    /\ nOnce' = normalizeHebrewText(nText)
    /\ nPc' = "once"
    /\ UNCHANGED <<nText, nTwice, aiVars, valVars, pipeVars, detVars, preVars, ctlVars>>

NormalizeAgain ==
    /\ nPc = "once"
    /\ nTwice' = normalizeHebrewText(nOnce)
    /\ nPc' = "twice"
    /\ UNCHANGED <<nText, nOnce, aiVars, valVars, pipeVars, detVars, preVars, ctlVars>>

NormNext == NormalizeFirst \/ NormalizeAgain

\* ------------------------------------------- aiFieldExtractionService.js
\* JavaScript values as they come out of JSON.parse: a type tag and, for a
\* string, its characters; for a number, its decimal digits.
Undefined == [type |-> "undefined", s |-> <<>>]
Null == [type |-> "null", s |-> <<>>]
Str(s) == [type |-> "string", s |-> s]
Num(s) == [type |-> "number", s |-> s]

\* ToBoolean(v)
Truthy(v) ==
    \/ v.type = "string" /\ v.s # <<>>
    \/ v.type = "number" /\ v.s # <<"0">>

Digits == {"0", "1", "2", "3", "4", "5", "6", "7", "8", "9"}

DigitVal(c) ==
    CASE c = "0" -> 0 [] c = "1" -> 1 [] c = "2" -> 2 [] c = "3" -> 3
      [] c = "4" -> 4 [] c = "5" -> 5 [] c = "6" -> 6 [] c = "7" -> 7
      [] c = "8" -> 8 [] c = "9" -> 9

DigitChar(n) == CHOOSE c \in Digits : DigitVal(c) = n

AllDigits(s) == \A i \in 1..Len(s) : s[i] \in Digits

RECURSIVE DecimalValue(_)
DecimalValue(s) ==
    IF s = <<>> THEN 0
    ELSE 10 * DecimalValue(SubSeq(s, 1, Len(s) - 1)) + DigitVal(s[Len(s)])

\* Number.prototype.toString of a non-negative integer
RECURSIVE NatToString(_)
NatToString(n) ==
    IF n < 10 THEN <<DigitChar(n)>>
    ELSE NatToString(n \div 10) \o <<DigitChar(n % 10)>>

RECURSIVE DigitPrefix(_)
DigitPrefix(s) ==
    IF s # <<>> /\ Head(s) \in Digits
    THEN <<Head(s)>> \o DigitPrefix(Tail(s)) ELSE <<>>

\* parseInt(string): leading white space is skipped, an optional sign is
\* read, then the longest prefix of digits; NaN when there is none.
parseInt(s) ==
    LET t == TrimStart(s)
        neg == t # <<>> /\ Head(t) = "-"
        u == IF t # <<>> /\ Head(t) \in {"-", "+"} THEN Tail(t) ELSE t
        d == DigitPrefix(u)
    IN  IF d = <<>> THEN [nan |-> TRUE, n |-> 0]
        ELSE [nan |-> FALSE,
              n |-> IF neg THEN 0 - DecimalValue(d) ELSE DecimalValue(d)]

\* String.prototype.padStart(2, '0')
PadStart2(s) == IF Len(s) < 2 THEN <<"0">> \o s ELSE s

\* Object.keys(FIELD_DEFINITIONS.required)
RequiredOrder == <<"reportNumber", "violationDate", "violationType", "fineAmount">>

\* Object.keys(FIELD_DEFINITIONS.optional)
OptionalOrder == <<"violationTime", "location", "driverName", "licenseNumber",
                   "points", "vehiclePlate", "appealDeadline">>

\* Object.entries({...FIELD_DEFINITIONS.required, ...FIELD_DEFINITIONS.optional})
CatalogOrder == RequiredOrder \o OptionalOrder

RequiredFields == {RequiredOrder[i] : i \in 1..Len(RequiredOrder)}

CatalogFields == {CatalogOrder[i] : i \in 1..Len(CatalogOrder)}

\* value.match(/^(\d{1,2})[\/\.](\d{1,2})[\/\.](\d{4})$/): the set of the
\* ways the pattern matches (at most one), each as <<day, month, year>>.
DateMatches(s) ==
    {<<SubSeq(s, 1, i), SubSeq(s, i + 2, i + 1 + j), SubSeq(s, i + j + 3, Len(s))>> :
        <<i, j>> \in {p \in (1..2) \X (1..2) :
            /\ Len(s) = p[1] + p[2] + 6
            /\ AllDigits(SubSeq(s, 1, p[1]))
            /\ s[p[1] + 1] \in {"/", "."}
            /\ AllDigits(SubSeq(s, p[1] + 2, p[1] + 1 + p[2]))
            /\ s[p[1] + p[2] + 2] \in {"/", "."}
            /\ AllDigits(SubSeq(s, p[1] + p[2] + 3, Len(s)))}}

\* Outcomes of validateFieldValue.
Threw == [threw |-> TRUE, isValid |-> FALSE, normalizedValue |-> Undefined, confidence |-> 0]
Invalid == [threw |-> FALSE, isValid |-> FALSE, normalizedValue |-> Undefined, confidence |-> 0]
Valid(v, c) == [threw |-> FALSE, isValid |-> TRUE, normalizedValue |-> v, confidence |-> c]

\* validateFieldValue(fieldName, value, fieldDef), for a truthy value.  The
\* confidence is in units of 1/1000.  A method of String.prototype called
\* on a number raises a TypeError; RegExp.prototype.test and parseInt
\* convert their argument to a string first.
validateFieldValue(fieldName, value) ==
    CASE fieldName = "reportNumber" ->
            IF ~(Len(value.s) >= 6 /\ AllDigits(value.s)) THEN Invalid
            ELSE Valid(value, 950)
      [] fieldName = "violationDate" ->
            IF value.type # "string" THEN Threw
            ELSE IF DateMatches(value.s) = {} THEN Invalid
            ELSE LET m == CHOOSE d \in DateMatches(value.s) : TRUE
                 IN  IF DecimalValue(m[1]) > 31 \/ DecimalValue(m[2]) > 12 THEN Invalid
                     ELSE Valid(Str(PadStart2(m[1]) \o <<"/">> \o PadStart2(m[2])
                                    \o <<"/">> \o m[3]), 900)
      [] fieldName = "violationTime" ->
            IF ~(\E h \in 1..2 :
                    /\ Len(value.s) = h + 3
                    /\ AllDigits(SubSeq(value.s, 1, h))
                    /\ value.s[h + 1] = ":"
                    /\ AllDigits(SubSeq(value.s, h + 2, h + 3)))
            THEN Invalid
            ELSE Valid(value, 850)
      [] fieldName = "fineAmount" ->
            IF value.type # "string" THEN Threw
            ELSE LET amount == parseInt(SelectSeq(value.s, LAMBDA c : c \in Digits))
                 IN  IF amount.nan \/ amount.n < 50 \/ amount.n > 10000 THEN Invalid
                     ELSE Valid(Str(NatToString(amount.n)), 900)
      [] fieldName = "points" ->
            LET points == parseInt(value.s)
            IN  IF points.nan \/ points.n < 0 \/ points.n > 12 THEN Invalid
                ELSE Valid(Str(NatToString(points.n)), 850)
      [] OTHER ->
            IF value.type # "string" THEN Threw
            ELSE LET cleaned == Trim(value.s)
                 IN  IF Len(cleaned) < 2 \/ Len(cleaned) > 100 THEN Invalid
                     ELSE Valid(Str(cleaned), 800)

\* A confidence-score object: a function from the keys that were set to the
\* scores.  `scores[f] || 0`:
ScoreOf(scores, f) == IF f \in DOMAIN scores THEN scores[f] ELSE 0

NoScores == [f \in {} |-> 0]

Min(a, b) == IF a <= b THEN a ELSE b

\* The test `value && value !== null && value !== 'null'`.
HasValue(value) == Truthy(value) /\ value # Str(<<"n", "u", "l", "l">>)

\* The note pushed for a field that failed validation.
FailedNote(f) == <<"failed validation", f>>

\* The notes pushed for the fields that failed validation, in loop order.
FailedNotes(failed) == [i \in 1..Len(failed) |-> FailedNote(failed[i])]

\* The object validateAIExtraction builds, given what validateFieldValue
\* answered for each field with a value.
ValidatedFields(aiResponse, validationResult) ==
    [threw |-> \E f \in CatalogFields : validationResult[f].threw,
     extractedFields |->
        [f \in CatalogFields |->
            IF HasValue(aiResponse.extractedFields[f])
            THEN validationResult[f].normalizedValue ELSE Null],
     confidenceScores |->
        [f \in CatalogFields |->
            IF validationResult[f].isValid
            THEN Min(ScoreOf(aiResponse.confidenceScores, f),
                     validationResult[f].confidence)
            ELSE 0],
     processingNotes |->
        aiResponse.processingNotes
        \o FailedNotes(SelectSeq(CatalogOrder,
                LAMBDA f : HasValue(aiResponse.extractedFields[f])
                           /\ ~validationResult[f].isValid))]

\* validateAIExtraction(aiResponse).  extractedFields is total over the
\* catalog: Undefined stands for a key that was never set.  threw:
\* validateFieldValue raised for some field, which ends the loop and the
\* function with it.
validateAIExtraction(aiResponse) ==
    ValidatedFields(aiResponse,
        [f \in CatalogFields |->
            IF HasValue(aiResponse.extractedFields[f])
            THEN validateFieldValue(f, aiResponse.extractedFields[f])
            ELSE Invalid])

\* Units.  What the model reports, what validateFieldValue caps it with, the
\* detector's confidence and the overall OCR confidence are in units of
\* 1/1000 (Milli); a final score, which is a product of two of those
\* scaled by a weight in tenths, is in units of 1/FinalOne.
Milli == 10 * 100
FinalOne == 10 * Milli * Milli

\* Mutant: the two weights exchanged.
WeightedAverageSwapped(aiConfidence, preprocessingConfidence) ==
    3 * aiConfidence + 7 * preprocessingConfidence

\* Mutant: the model's confidence is not weighted down.
WeightedSum(aiConfidence, preprocessingConfidence) ==
    10 * aiConfidence + 3 * preprocessingConfidence

\* (aiConfidence * 0.7) + (preprocessingConfidence * 0.3), in units of
\* 1/(10 * Milli).
WeightedAverage(aiConfidence, preprocessingConfidence) ==
    7 * aiConfidence + 3 * preprocessingConfidence

\* The note pushed for a field whose score was averaged.
EnhancedNote(f) == <<"enhanced with preprocessing confidence", f>>

\* combineExtractionResults(aiResults, preprocessingResults, ocrConfidence).
\* enhanced: the entries of Object.entries(preprocessingResults), in order,
\* that pass the test of the first loop.  The scores returned are in units
\* of 1/FinalOne.
Averaged(aiResults, enhanced, f) ==
    IF \E i \in 1..Len(enhanced) : enhanced[i].field = f
    THEN WeightedAverage(aiResults.confidenceScores[f],
            enhanced[CHOOSE k \in 1..Len(enhanced) : enhanced[k].field = f].confidence)
    ELSE 10 * aiResults.confidenceScores[f]

Combined(aiResults, enhanced, ocrConfidence) ==
    [extractedFields |-> aiResults.extractedFields,
     confidenceScores |->
        [f \in DOMAIN aiResults.confidenceScores |->
            Averaged(aiResults, enhanced, f) * ocrConfidence],
     processingNotes |->
        aiResults.processingNotes
        \o [i \in 1..Len(enhanced) |-> EnhancedNote(enhanced[i].field)]]

combineExtractionResults(aiResults, preprocessingResults, ocrConfidence) ==
    Combined(aiResults,
             SelectSeq(preprocessingResults,
                       LAMBDA e : /\ e.field \in CatalogFields
                                  /\ Truthy(aiResults.extractedFields[e.field])
                                  /\ e.confidence # 0),
             ocrConfidence)

\* Mutant: the catch block reports success with nothing extracted.
AIFailureAsSuccess ==
    [success |-> TRUE,
     extractedFields |-> [f \in CatalogFields |-> Undefined],
     confidenceScores |-> [f \in {} |-> 0],
     processingNotes |-> <<<<"AI extraction failed", "error.message">>>>]

\* Mutant: the catch block keeps a field and its score.
AIFailurePartial ==
    [success |-> FALSE,
     extractedFields |->
        [f \in CatalogFields |->
            IF f = "reportNumber" THEN Str(<<"1", "2", "3", "4", "5", "6">>)
            ELSE Undefined],
     confidenceScores |-> [f \in {"reportNumber"} |-> 5 * Milli * Milli],
     processingNotes |-> <<<<"AI extraction failed", "error.message">>>>]

\* What the catch block of extractFieldsWithAI returns.
AIFailure ==
    [success |-> FALSE,
     extractedFields |-> [f \in CatalogFields |-> Undefined],
     confidenceScores |-> NoScores,
     processingNotes |-> <<<<"AI extraction failed", "error.message">>>>]

\* `{ success: true, ...finalResult }`
Succeeded(finalResult) ==
    [success |-> TRUE,
     extractedFields |-> finalResult.extractedFields,
     confidenceScores |-> finalResult.confidenceScores,
     processingNotes |-> finalResult.processingNotes]

\* The try block of extractFieldsWithAI from the validation on.
Responded(validatedFields, extractedValues, ocrConfidence) ==
    IF validatedFields.threw THEN AIFailure
    ELSE Succeeded(combineExtractionResults(validatedFields, extractedValues,
                                            ocrConfidence))

\* extractFieldsWithAI(preprocessedText, ocrConfidence), given how the
\* external call ended: completion.kind is "raise" (the request raised),
\* "malformed" (the content is not JSON: JSON.parse raises) or "json"
\* (completion.response is the parsed object).
extractFieldsWithAI(completion, extractedValues, ocrConfidence) ==
    IF completion.kind # "json" THEN AIFailure
    ELSE Responded(validateAIExtraction(completion.response), extractedValues,
                   ocrConfidence)

\* The value of the parameter default `minConfidence = 0.7`, in 1/FinalOne.
DefaultMinConfidence == 7 * Milli * Milli

\* `!value || value === null`
IsMissing(value) == ~Truthy(value)

\* The loop of validateRequiredFields over requiredFieldNames.
RECURSIVE RequiredLoop(_, _, _, _)
RequiredLoop(order, extractionResult, minConfidence, acc) ==
    IF order = <<>> THEN acc
    ELSE LET fieldName == Head(order)
             value == extractionResult.extractedFields[fieldName]
             confidence == ScoreOf(extractionResult.confidenceScores, fieldName)
         IN  RequiredLoop(Tail(order), extractionResult, minConfidence,
                IF IsMissing(value)
                THEN [acc EXCEPT !.missingFields = Append(@, fieldName),
                                 !.isValid = FALSE]
                ELSE IF confidence < minConfidence
                THEN [acc EXCEPT !.lowConfidenceFields =
                                    Append(@, [field |-> fieldName,
                                               confidence |-> confidence]),
                                 !.isValid = FALSE]
                ELSE [acc EXCEPT !.validFields = @ + 1])

\* Mutant: the threshold is not applied.
validateRequiredFieldsNoThreshold(extractionResult, minConfidence) ==
    LET done == RequiredLoop(RequiredOrder, extractionResult, 0,
                    [isValid |-> TRUE, missingFields |-> <<>>,
                     lowConfidenceFields |-> <<>>, validFields |-> 0])
    IN  [isValid |-> done.isValid,
         missingFields |-> done.missingFields,
         lowConfidenceFields |-> done.lowConfidenceFields,
         completeness |-> (done.validFields * 100) \div Len(RequiredOrder)]

\* validateRequiredFields(extractionResult, minConfidence)
validateRequiredFields(extractionResult, minConfidence) ==
    LET done == RequiredLoop(RequiredOrder, extractionResult, minConfidence,
                    [isValid |-> TRUE, missingFields |-> <<>>,
                     lowConfidenceFields |-> <<>>, validFields |-> 0])
    IN  [isValid |-> done.isValid,
         missingFields |-> done.missingFields,
         lowConfidenceFields |-> done.lowConfidenceFields,
         completeness |-> (done.validFields * 100) \div Len(RequiredOrder)]

\* ------------------------------------------------------- ocrService.js
\* A line of recognized text is a sequence of characters in which each
\* label phrase the parser looks for stands as one symbol:
\*   "KW_REPORT"  (/מספר דוח|פרטי דוח מספר/)   "KW_VDATE"   (/תאריך עבירה/)
\*   "KW_STREET"  (/רחוב/)                      "KW_SECTION" (/סעיף העבירה/; the
\*                                                alternative /מס' עבירה/ is in no text used)
\*   "KW_PLACE"   (/מיקום/, never followed by " יחסי:" in the texts used)
\*   "KW_AMOUNT"  (/סכום לתשלום/)               "KW_DRIVER"  ('אל הנהג')
\*   "KW_LICENSE" (/מספר רישוי/)                "KW_PLATE"   (/לוחית ישראלי|מספר רכב/)
\*   "KW_POINTS"  (/נקודות/)                    "KW_APPEAL"  (/מועד אחרון לערעור|.../)
\* A match is the matched characters; <<>> stands for null (no match).

Has(line, kw) == \E i \in 1..Len(line) : line[i] = kw

RECURSIVE RunLen(_, _)
RunLen(s, i) ==
    IF i <= Len(s) /\ s[i] \in Digits THEN 1 + RunLen(s, i + 1) ELSE 0

\* The least of a set of positions, 0 when there is none.
FirstPos(positions) ==
    IF positions = {} THEN 0
    ELSE CHOOSE i \in positions : \A j \in positions : i <= j

\* s.match(/\d{n,}/) and, with n = 1, s.match(/(\d+)/)
MatchDigitsAtLeast(s, n) ==
    LET i == FirstPos({k \in 1..Len(s) : RunLen(s, k) >= n})
    IN  IF i = 0 THEN <<>> ELSE SubSeq(s, i, i + RunLen(s, i) - 1)

\* s.match(/(\d{8})/)
MatchEightDigits(s) ==
    LET i == FirstPos({k \in 1..Len(s) : RunLen(s, k) >= 8})
    IN  IF i = 0 THEN <<>> ELSE SubSeq(s, i, i + 7)

DateAt(s, i) ==
    /\ i + 9 <= Len(s)
    /\ \A k \in {0, 1, 3, 4, 6, 7, 8, 9} : s[i + k] \in Digits
    /\ s[i + 2] = "/" /\ s[i + 5] = "/"

\* s.match(/(\d{2}\/\d{2}\/\d{4})/)
MatchDate(s) ==
    LET i == FirstPos({k \in 1..Len(s) : DateAt(s, k)})
    IN  IF i = 0 THEN <<>> ELSE SubSeq(s, i, i + 9)

TimeAt(s, i) ==
    /\ i + 4 <= Len(s)
    /\ \A k \in {0, 1, 3, 4} : s[i + k] \in Digits
    /\ s[i + 2] = ":"

\* s.match(/(\d{2}:\d{2})/)
MatchTime(s) ==
    LET i == FirstPos({k \in 1..Len(s) : TimeAt(s, k)})
    IN  IF i = 0 THEN <<>> ELSE SubSeq(s, i, i + 4)

RECURSIVE SpacesFrom(_, _)
SpacesFrom(s, i) ==
    IF i <= Len(s) /\ s[i] \in WhiteSpace THEN 1 + SpacesFrom(s, i + 1) ELSE 0

\* The position after an optional character c at position e.
SkipChar(s, e, c) == IF e <= Len(s) /\ s[e] = c THEN e + 1 ELSE e

\* The position after the white space that starts at position e.
SkipSpaces(s, e) == e + SpacesFrom(s, e)

\* s.match(/(\d+\s*\(?.*?\)?)/): the digits, the white space after them, an
\* opening parenthesis if one follows, and a closing one right after it
\* (the lazy .*? takes nothing).
SectionFrom(s, i) ==
    IF i = 0 THEN <<>>
    ELSE SubSeq(s, i, SkipChar(s, SkipChar(s, SkipSpaces(s, i + RunLen(s, i)), "("), ")") - 1)

MatchSection(s) == SectionFrom(s, FirstPos({k \in 1..Len(s) : RunLen(s, k) >= 1}))

\* s.replace(pattern, ''), pattern a sequence of characters: its first
\* occurrence removed.
RemoveFirst(s, pat) ==
    LET i == FirstPos({k \in 1..Len(s) : /\ k + Len(pat) - 1 <= Len(s)
                                          /\ SubSeq(s, k, k + Len(pat) - 1) = pat})
    IN  IF i = 0 THEN s
        ELSE SubSeq(s, 1, i - 1) \o SubSeq(s, i + Len(pat), Len(s))

\* a || b for matches
OrElse(a, b) == IF a # <<>> THEN a ELSE b

\* text.split('\n').map(l => l.trim()).filter(Boolean), on a text given as
\* its sequence of lines, each with the confidence getLineConfidence
\* computes for it.
NonBlankLines(text) ==
    LET kept == SelectSeq(text, LAMBDA l : Trim(l.chars) # <<>>)
    IN  [i \in 1..Len(kept) |-> [chars |-> Trim(kept[i].chars),
                                 confidence |-> kept[i].confidence]]

\* lines[i] || ''
LineAt(lines, i) == IF i \in 1..Len(lines) THEN lines[i].chars ELSE <<>>

\* The value the rule for field f in the loop body assigns at line i;
\* Undefined where it assigns nothing.
LineField(lines, i, f) ==
    LET line == lines[i].chars
        nextLine == LineAt(lines, i + 1)
        found(m) == IF m = <<>> THEN Undefined ELSE Str(m)
    IN  CASE f = "reportNumber" ->
                IF Has(line, "KW_REPORT")
                THEN found(OrElse(MatchDigitsAtLeast(line, 6),
                                  MatchDigitsAtLeast(nextLine, 6)))
                ELSE Undefined
          [] f = "violationDate" ->
                IF Has(line, "KW_VDATE") THEN found(MatchDate(line)) ELSE Undefined
          [] f = "violationTime" ->
                IF Has(line, "KW_VDATE") THEN found(MatchTime(line)) ELSE Undefined
          [] f = "location" ->
                IF Has(line, "KW_STREET") \/ Has(line, "KW_PLACE")
                THEN Str(Trim(Trim(RemoveFirst(line, <<"KW_STREET", ":">>))
                              \o (IF nextLine # <<>> /\ MatchDate(nextLine) = <<>>
                                  THEN <<"SP">> \o nextLine ELSE <<>>)))
                ELSE Undefined
          [] f = "violationType" ->
                IF Has(line, "KW_SECTION")
                THEN found(Trim(MatchSection(line)))
                ELSE Undefined
          [] f = "fineAmount" ->
                IF Has(line, "KW_AMOUNT")
                THEN found(MatchDigitsAtLeast(line, 1))
                ELSE Undefined
          [] f = "driverName" ->
                IF Has(line, "KW_DRIVER")
                THEN Str(Trim(RemoveFirst(line, <<"KW_DRIVER">>)))
                ELSE Undefined
          [] f = "licenseNumber" ->
                IF Has(line, "KW_LICENSE") THEN Str(nextLine) ELSE Undefined
          [] f = "vehiclePlate" ->
                IF Has(line, "KW_PLATE")
                THEN found(OrElse(MatchEightDigits(nextLine), MatchEightDigits(line)))
                ELSE Undefined
          [] f = "points" ->
                IF Has(line, "KW_POINTS")
                THEN found(MatchDigitsAtLeast(line, 1))
                ELSE Undefined
          [] f = "appealDeadline" ->
                IF Has(line, "KW_APPEAL")
                THEN found(OrElse(MatchDate(line),
                           OrElse(MatchDate(nextLine),
                           OrElse(MatchDate(LineAt(lines, i + 2)),
                           OrElse(MatchDate(LineAt(lines, i + 3)),
                           OrElse(MatchDate(LineAt(lines, i + 4)),
                                  MatchDate(LineAt(lines, i + 5))))))))
                ELSE Undefined

\* What the loop holds for a field it never assigned.
NotAssigned == [value |-> Undefined, confidence |-> 0]

\* The assignments the loop makes to field f, in the order of the lines,
\* each with the lineConfidence stored beside it.
Assignments(lines, f) ==
    SelectSeq([i \in 1..Len(lines) |-> [value |-> LineField(lines, i, f),
                                        confidence |-> lines[i].confidence]],
              LAMBDA a : a.value # Undefined)

\* The last assignment is the one that stays.
LastOf(assignments) ==
    IF assignments = <<>> THEN NotAssigned ELSE assignments[Len(assignments)]

\* `{ extractedFields: fields, confidenceScores: confidences }`
ParsedFields(last) ==
    [extractedFields |-> [f \in CatalogFields |-> last[f].value],
     confidenceScores |->
        [f \in {g \in CatalogFields : last[g].value # Undefined} |-> last[f].confidence]]

\* parseOCRTextWithConfidence(text, ocrResponse): the scores are line
\* confidences, in units of 1/FinalOne.
ParseLines(lines) ==
    ParsedFields([f \in CatalogFields |-> LastOf(Assignments(lines, f))])

parseOCRTextWithConfidence(text) == ParseLines(NonBlankLines(text))

\* createLegacyResult(extractedText, extractedFields, confidenceScores,
\* fileInfo, errorMessage)
createLegacyResult(extractedFields, confidenceScores, errorMessage) ==
    [pipeline |-> "legacy",
     extractedFields |-> extractedFields,
     confidenceScores |-> confidenceScores,
     fallbackReason |-> errorMessage,
     validation |->
        [isValid |-> \E f \in CatalogFields : extractedFields[f] # Undefined,
         missingFields |-> <<>>,
         lowConfidenceFields |-> <<>>,
         completeness |-> 50]]

\* The threshold extractTextFromDocument hands validateRequiredFields, 0.6.
PipelineMinConfidence == 6 * Milli * Milli

\* Mutant: only `points` is looked for.
MissingPointsOnly(aiExtractionResult) ==
    {f \in {"points"} : ~Truthy(aiExtractionResult.extractedFields[f])}

\* ['points', 'appealDeadline', 'vehiclePlate']
WatchList == {"points", "appealDeadline", "vehiclePlate"}

\* The watch-list fields the model's result lacks.
MissingWatched(aiExtractionResult) ==
    {f \in WatchList : ~Truthy(aiExtractionResult.extractedFields[f])}

\* The fields the forEach of the gap-fill overwrites.
Filled(aiExtractionResult, legacyResult) ==
    {f \in MissingWatched(aiExtractionResult) : Truthy(legacyResult.extractedFields[f])}

\* Mutant: the gap-fill takes the parser's value and leaves the score alone.
GapFillKeepsModelScore(aiExtractionResult, legacyResult) ==
    [extractedFields |->
        [f \in CatalogFields |->
            IF f \in Filled(aiExtractionResult, legacyResult)
            THEN legacyResult.extractedFields[f]
            ELSE aiExtractionResult.extractedFields[f]],
     confidenceScores |-> aiExtractionResult.confidenceScores]

\* finalFields and finalConfidences after the gap-fill.
GapFill(aiExtractionResult, legacyResult) ==
    LET filled == Filled(aiExtractionResult, legacyResult)
    IN  [extractedFields |->
            [f \in CatalogFields |->
                IF f \in filled THEN legacyResult.extractedFields[f]
                ELSE aiExtractionResult.extractedFields[f]],
         confidenceScores |->
            [f \in (DOMAIN aiExtractionResult.confidenceScores) \cup filled |->
                IF f \in filled THEN ScoreOf(legacyResult.confidenceScores, f)
                ELSE aiExtractionResult.confidenceScores[f]]]

\* The object the enhanced path returns.
EnhancedResult(final, validation) ==
    [pipeline |-> "enhanced",
     extractedFields |-> final.extractedFields,
     confidenceScores |-> final.confidenceScores,
     fallbackReason |-> "none",
     validation |-> validation]

\* ------------------------------------ harness: one extractFieldsWithAI
NoResult ==
    [success |-> FALSE,
     extractedFields |-> [f \in CatalogFields |-> Undefined],
     confidenceScores |-> NoScores,
     processingNotes |-> <<>>]

Pending == [kind |-> "pending", response |-> <<>>]

\* Values the model may put in a field of its JSON answer.
ModelValues ==
    {Null, Str(<<>>), Str(<<"n", "u", "l", "l">>),
     Str(<<"1", "2", "3", "4", "5", "6">>), Str(<<"1", "2", "3", "4", "5">>),
     Str(<<"1", "2", "3", "4", "5", "6", "7", "8">>),
     Str(<<"a", "b", "c">>), Str(<<"a">>), Str(<<"SP", "a", "b", "SP">>),
     Str(<<"1", "2", "a", "b">>),
     Str(<<"1", "5", "/", "0", "3", "/", "2", "0", "2", "4">>),
     Str(<<"7", ".", "3", ".", "2", "0", "2", "4">>),
     Str(<<"3", "2", "/", "0", "1", "/", "2", "0", "2", "4">>),
     Str(<<"0", "/", "0", "/", "2", "0", "2", "4">>),
     Str(<<"1", "4", ":", "3", "0">>), Str(<<"1", "4", "3", "0">>),
     Str(<<"5", "0", "0">>), Str(<<"4", "9">>), Str(<<"1", "2", ".", "5", "0">>),
     Str(<<"6">>), Str(<<"1", "3">>), Str(<<"-", "1">>),
     Num(<<"5">>), Num(<<"0">>), Num(<<"1", "2", "3", "4", "5", "6">>)}

\* Confidences the model may report, in 1/Milli.
ModelConfidences == {500, 1000}

\* A well-formed value for each field, as in FIELD_DEFINITIONS' examples.
ExampleValue(f) ==
    CASE f = "reportNumber" -> Str(<<"1", "2", "3", "4", "5", "6">>)
      [] f = "violationDate" -> Str(<<"1", "5", "/", "0", "3", "/", "2", "0", "2", "4">>)
      [] f = "violationType" -> Str(<<"6", "5", "3", "6">>)
      [] f = "fineAmount" -> Str(<<"5", "0", "0">>)
      [] f = "violationTime" -> Str(<<"1", "4", ":", "3", "0">>)
      [] f = "location" -> Str(<<"a", "b">>)
      [] f = "driverName" -> Str(<<"a", "b", "c">>)
      [] f = "licenseNumber" -> Str(<<"1", "2", "3", "4", "5", "6", "7", "8">>)
      [] f = "points" -> Str(<<"6">>)
      [] f = "vehiclePlate" -> Str(<<"1", "2", "3", "-", "4", "5", "-", "6", "7", "8">>)
      [] f = "appealDeadline" -> Str(<<"3", "0", "/", "1", "2", "/", "2", "0", "2", "3">>)

\* The two answers the others are derived from: every field null and no
\* score, and every field well-formed at confidence 0.9 with one note.
BaseResponses ==
    {[extractedFields |-> [f \in CatalogFields |-> Null],
      confidenceScores |-> NoScores,
      processingNotes |-> <<>>],
     [extractedFields |-> [f \in CatalogFields |-> ExampleValue(f)],
      confidenceScores |-> [f \in CatalogFields |-> 900],
      processingNotes |-> <<<<"model note", "any">>>>]}

\* A base answer with one field replaced.
AIResponses ==
    {[b EXCEPT !.extractedFields = [@ EXCEPT ![f] = v],
               !.confidenceScores = [g \in (DOMAIN @) \cup {f} |-> IF g = f THEN c ELSE @[g]]] :
        b \in BaseResponses, f \in CatalogFields, v \in ModelValues, c \in ModelConfidences}

\* Keys extractedValues can hold: the keys of TRAFFIC_KEYWORDS for which
\* extractValuePatterns has patterns.
PreprocessFields == {"reportNumber", "violationDate", "violationType",
                     "fineAmount", "time", "points"}

\* Confidences detectFieldTypes records, min(0.95, similarity + 0.1), in 1/Milli.
DetectorConfidences == {400, 950}

\* extractedValues as Object.entries lists it: at most MaxDetected entries.
ExtractedValuesOptions ==
    {es \in SeqsUpTo([field : PreprocessFields, confidence : DetectorConfidences],
                     MaxDetected) :
        \A i, j \in 1..Len(es) : es[i].field = es[j].field => i = j}

OcrConfidences == {500, 1000}

AiOff ==
    /\ aPc = "off"
    /\ aCompletion = Pending
    /\ aValues = <<>>
    /\ aOcrConfidence = 0
    /\ aResult = NoResult

AiInit ==
    /\ aPc = "calling"
    /\ aCompletion = Pending
    /\ aValues \in ExtractedValuesOptions
    /\ aOcrConfidence \in OcrConfidences
    /\ aResult = NoResult

\* The state after the awaited call ended as `completion`: the rest of
\* extractFieldsWithAI runs without suspending.
AiReturned(completion) ==
    /\ aCompletion' = completion
    /\ aResult' = extractFieldsWithAI(completion, aValues, aOcrConfidence)
    /\ aPc' = "returned"
    /\ UNCHANGED <<aValues, aOcrConfidence, normVars, valVars, pipeVars, detVars, preVars, ctlVars>>

\* openai.chat.completions.create raises.
AiCallRaises ==
    /\ aPc = "calling"
    /\ AiReturned([kind |-> "raise", response |-> <<>>])

\* The content of the answer is not JSON.
AiCallMalformed ==
    /\ aPc = "calling"
    /\ AiReturned([kind |-> "malformed", response |-> <<>>])

\* The answer parses.
AiCallAnswers ==
    /\ aPc = "calling"
    /\ \E r \in AIResponses : AiReturned([kind |-> "json", response |-> r])

AiNext == AiCallRaises \/ AiCallMalformed \/ AiCallAnswers

\* --------------------------------- harness: one validateRequiredFields
\* Values and scores of a required field in the result handed in.
RequiredValues == {Undefined, Null, Str(<<>>), Str(<<"x">>)}

RequiredScores == {0, PipelineMinConfidence - 1, PipelineMinConfidence,
                   9 * Milli * Milli}

ExtractionResults ==
    {[extractedFields |-> ef, confidenceScores |-> cs] :
        ef \in [RequiredFields -> RequiredValues],
        cs \in [RequiredFields -> RequiredScores]}

ValOff ==
    /\ vPc = "off"
    /\ vResult = <<>>
    /\ vMinConfidence = 0
    /\ vGiven = FALSE
    /\ vValidation = <<>>

ValInit ==
    /\ vPc = "input"
    /\ vResult \in ExtractionResults
    /\ vGiven \in BOOLEAN
    /\ vMinConfidence \in (IF vGiven THEN {PipelineMinConfidence, DefaultMinConfidence}
                           ELSE {DefaultMinConfidence})
    /\ vValidation = <<>>

Validate ==
    /\ vPc = "input"
    /\ vValidation' = validateRequiredFields(vResult, vMinConfidence)
    /\ vPc' = "validated"
    /\ UNCHANGED <<vResult, vMinConfidence, vGiven, normVars, aiVars, pipeVars, detVars, preVars, ctlVars>>

ValNext == Validate

\* ------------------------------- harness: one extractTextFromDocument
NoLegacy ==
    [extractedFields |-> [f \in CatalogFields |-> Undefined],
     confidenceScores |-> NoScores]

NoPipelineResult ==
    [pipeline |-> "none",
     extractedFields |-> [f \in CatalogFields |-> Undefined],
     confidenceScores |-> NoScores,
     fallbackReason |-> "none",
     validation |-> [isValid |-> FALSE, missingFields |-> <<>>,
                     lowConfidenceFields |-> <<>>, completeness |-> 0]]

\* The sum of the confidences of the matching symbols.
RECURSIVE SumOf(_)
SumOf(confidences) ==
    IF confidences = <<>> THEN 0 ELSE Head(confidences) + SumOf(Tail(confidences))

\* getLineConfidence(line), given the confidences (in 1/Milli) of the
\* symbols whose text the line includes; the mean, in 1/FinalOne.
getLineConfidence(matchingSymbols) ==
    IF Len(matchingSymbols) = 0 THEN 0
    ELSE (SumOf(matchingSymbols) * (FinalOne \div Milli)) \div Len(matchingSymbols)

\* Lines the OCR may return, each with the confidence getLineConfidence
\* computes from the symbols found in it, in 1/FinalOne.
DocLines ==
    {[chars |-> <<"KW_REPORT", "SP", "1", "2", "3", "4", "5", "6">>,
      confidence |-> getLineConfidence(<<1000, 800>>)],
     [chars |-> <<"1", "2", "3", "4", "5", "6", "7", "8">>,
      confidence |-> getLineConfidence(<<1000, 800>>)],
     [chars |-> <<"KW_POINTS", "SP", "6">>, confidence |-> getLineConfidence(<<700>>)],
     [chars |-> <<"KW_POINTS", "SP", "0">>, confidence |-> getLineConfidence(<<>>)],
     [chars |-> <<"KW_PLATE">>, confidence |-> getLineConfidence(<<800, 800>>)],
     [chars |-> <<"KW_APPEAL", "SP", "3", "0", "/", "1", "2", "/", "2", "0", "2", "3">>,
      confidence |-> getLineConfidence(<<1000, 800>>)],
     [chars |-> <<"KW_AMOUNT", "SP", "5", "0", "0">>,
      confidence |-> getLineConfidence(<<1000, 800>>)],
     [chars |-> <<"KW_VDATE", "SP", "1", "5", "/", "0", "3", "/", "2", "0", "2", "4",
                  "SP", "1", "4", ":", "3", "0">>,
      confidence |-> getLineConfidence(<<1000, 800>>)],
     [chars |-> <<"KW_LICENSE">>, confidence |-> getLineConfidence(<<600>>)],
     [chars |-> <<"KW_SECTION", "SP", "6", "5", "3", "6", "SP", "(", "a", ")">>,
      confidence |-> getLineConfidence(<<1000, 800>>)],
     [chars |-> <<"SP">>, confidence |-> getLineConfidence(<<>>)]}

\* fullTextAnnotation.text, as its sequence of lines.
Texts == SeqsUpTo(DocLines, MaxLines)

\* rawText.trim() is empty
IsBlank(text) == NonBlankLines(text) = <<>>

\* An answer of the model with every field well-formed at confidence 0.9.
FullResponse ==
    [extractedFields |-> [f \in CatalogFields |-> ExampleValue(f)],
     confidenceScores |-> [f \in CatalogFields |-> 900],
     processingNotes |-> <<>>]

\* Answers of the model: the full one less any part of the watch list; with
\* one required field null, reported at 0.5, or ill-formed; every field
\* null; and one with a number where a string is expected.
PipeResponses ==
    {[FullResponse EXCEPT !.extractedFields =
          [f \in CatalogFields |-> IF f \in W THEN Null ELSE @[f]]] : W \in SUBSET WatchList}
    \cup {[FullResponse EXCEPT !.extractedFields["fineAmount"] = Null],
          [FullResponse EXCEPT !.confidenceScores["violationDate"] = 500],
          [FullResponse EXCEPT !.extractedFields["reportNumber"] = Str(<<"1", "2">>)],
          [FullResponse EXCEPT !.extractedFields = [f \in CatalogFields |-> Null]],
          [FullResponse EXCEPT !.extractedFields["fineAmount"] = Num(<<"5", "0", "0">>)]}

\* Values of extractedValues the preprocessing may hand over.
PipeExtractedValues ==
    {<<>>, <<[field |-> "reportNumber", confidence |-> 400]>>}

PipeOcrConfidences == {500, 1000}

PipeOff ==
    /\ pPc = "off"
    /\ pText = <<>>
    /\ pOcrConfidence = 0
    /\ pValues = <<>>
    /\ pCompletion = Pending
    /\ pAi = NoResult
    /\ pLegacy = NoLegacy
    /\ pError = "none"
    /\ pResult = NoPipelineResult
    /\ pOcrCalls = 0
    /\ pModelCalls = 0
    /\ pParserRuns = 0

\* extractTextFromDocument was called and awaits the first OCR call.
PipeInit ==
    /\ pPc = "ocr"
    /\ pText = <<>>
    /\ pOcrConfidence = 0
    /\ pValues = <<>>
    /\ pCompletion = Pending
    /\ pAi = NoResult
    /\ pLegacy = NoLegacy
    /\ pError = "none"
    /\ pResult = NoPipelineResult
    /\ pOcrCalls = 1
    /\ pModelCalls = 0
    /\ pParserRuns = 0

\* Mutant: the catch block calls the model again.
CaughtCallsModel(error) ==
    /\ pError' = error
    /\ pPc' = "fallbackOcr"
    /\ pOcrCalls' = pOcrCalls + 1
    /\ pModelCalls' = pModelCalls + 1
    /\ UNCHANGED <<pOcrConfidence, pValues, pCompletion, pAi, pLegacy, pResult,
                   pParserRuns>>

\* The try block raised `error`: the catch block issues the second OCR call.
Caught(error) ==
    /\ pError' = error
    /\ pPc' = "fallbackOcr"
    /\ pOcrCalls' = pOcrCalls + 1
    /\ UNCHANGED <<pOcrConfidence, pValues, pCompletion, pAi, pLegacy, pResult,
                   pModelCalls, pParserRuns>>

\* client.documentTextDetection raises.
OcrRaises ==
    /\ pPc = "ocr"
    /\ UNCHANGED pText
    /\ Caught("ocr")
    /\ UNCHANGED <<normVars, aiVars, valVars, detVars, preVars, ctlVars>>

\* The OCR answers with no text, or white space only.
OcrReturnsBlank ==
    /\ pPc = "ocr"
    /\ \E text \in Texts :
          /\ IsBlank(text)
          /\ pText' = text
    /\ Caught("no text")
    /\ UNCHANGED <<normVars, aiVars, valVars, detVars, preVars, ctlVars>>

\* The OCR answers with text: the confidence is computed, the text is
\* preprocessed and the model is called.
OcrReturnsText ==
    /\ pPc = "ocr"
    /\ \E text \in Texts :
          /\ ~IsBlank(text)
          /\ pText' = text
    /\ pOcrConfidence' \in PipeOcrConfidences
    /\ pValues' \in PipeExtractedValues
    /\ pModelCalls' = pModelCalls + 1
    /\ pPc' = "model"
    /\ UNCHANGED <<pCompletion, pAi, pLegacy, pError, pResult, pOcrCalls, pParserRuns>>
    /\ UNCHANGED <<normVars, aiVars, valVars, detVars, preVars, ctlVars>>

\* The rest of the try block once the awaited model call ended as
\* `completion`; legacyResult is what parseOCRTextWithConfidence(rawText,
\* result) returns where the block calls it.
ModelReturned(completion, legacyResult) ==
    \E aiExtractionResult \in {extractFieldsWithAI(completion, pValues, pOcrConfidence)} :
       \E missingFields \in {MissingWatched(aiExtractionResult)} :
          \E parsed \in {~aiExtractionResult.success \/ missingFields # {}} :
        /\ pCompletion' = completion
        /\ pAi' = aiExtractionResult
        /\ pLegacy' = IF parsed THEN legacyResult ELSE pLegacy
        /\ pParserRuns' = IF parsed THEN pParserRuns + 1 ELSE pParserRuns
        /\ pResult' =
              IF ~aiExtractionResult.success
              THEN createLegacyResult(legacyResult.extractedFields,
                                      legacyResult.confidenceScores, "none")
              ELSE EnhancedResult(
                       IF missingFields # {}
                       THEN GapFill(aiExtractionResult, legacyResult)
                       ELSE [extractedFields |-> aiExtractionResult.extractedFields,
                             confidenceScores |-> aiExtractionResult.confidenceScores],
                       validateRequiredFields(aiExtractionResult, PipelineMinConfidence))
        /\ pPc' = "returned"
        /\ UNCHANGED <<pText, pOcrConfidence, pValues, pError, pOcrCalls, pModelCalls>>
        /\ UNCHANGED <<normVars, aiVars, valVars, detVars, preVars, ctlVars>>

\* The request to the model raises.
ModelRaises ==
    /\ pPc = "model"
    /\ \E legacyResult \in {parseOCRTextWithConfidence(pText)} :
          ModelReturned([kind |-> "raise", response |-> <<>>], legacyResult)

\* The model answers with content that is not JSON.
ModelMalformed ==
    /\ pPc = "model"
    /\ \E legacyResult \in {parseOCRTextWithConfidence(pText)} :
          ModelReturned([kind |-> "malformed", response |-> <<>>], legacyResult)

\* The model answers with a JSON object.
ModelAnswers ==
    /\ pPc = "model"
    /\ \E legacyResult \in {parseOCRTextWithConfidence(pText)} :
          \E r \in PipeResponses :
             ModelReturned([kind |-> "json", response |-> r], legacyResult)

\* The second OCR call, in the catch block, raises: the function throws.
FallbackOcrRaises ==
    /\ pPc = "fallbackOcr"
    /\ pPc' = "thrown"
    /\ UNCHANGED <<pText, pOcrConfidence, pValues, pCompletion, pAi, pLegacy, pError,
                   pResult, pOcrCalls, pModelCalls, pParserRuns>>
    /\ UNCHANGED <<normVars, aiVars, valVars, detVars, preVars, ctlVars>>

\* The second OCR call answers: its text is parsed and a legacy result is
\* returned.
FallbackOcrReturns ==
    /\ pPc = "fallbackOcr"
    /\ \E text \in Texts :
          \E legacyResult \in {parseOCRTextWithConfidence(text)} :
              /\ pLegacy' = legacyResult
              /\ pResult' = createLegacyResult(legacyResult.extractedFields,
                                               legacyResult.confidenceScores, pError)
    /\ pParserRuns' = pParserRuns + 1
    /\ pPc' = "returned"
    /\ UNCHANGED <<pText, pOcrConfidence, pValues, pCompletion, pAi, pError,
                   pOcrCalls, pModelCalls>>
    /\ UNCHANGED <<normVars, aiVars, valVars, detVars, preVars, ctlVars>>

PipeNext ==
    \/ OcrRaises \/ OcrReturnsBlank \/ OcrReturnsText
    \/ ModelRaises \/ ModelMalformed \/ ModelAnswers
    \/ FallbackOcrRaises \/ FallbackOcrReturns
\* ------------------------------- textPreprocessingService.js: detection
\* Hebrew letters carry their Unicode names ("MEM" is U+05DE); "DQUOTE" is
\* the ASCII double quote.
TRAFFIC_KEYWORDS ==
    [
      reportNumber |->
        << <<"MEM", "SAMEKH", "PE", "RESH", "SP", "DALET", "VAV", "HET">>,
           <<"PE", "RESH", "TET", "YOD", "SP", "DALET", "VAV", "HET", "SP", "MEM", "SAMEKH", "PE", "RESH">>,
           <<"DALET", "VAV", "HET", "SP", "MEM", "SAMEKH", "PE", "RESH">>,
           <<"MEM", "SAMEKH", "SP", "DALET", "VAV", "HET">>,
           <<"MEM", "SAMEKH", "QUOTE">>,
           <<"MEM", "SAMEKH", "PE", "RESH">> >>,
      violationDate |->
        << <<"TAV", "ALEF", "RESH", "YOD", "FINAL_KAF", "SP", "AYIN", "BET", "YOD", "RESH", "HE">>,
           <<"TAV", "ALEF", "RESH", "YOD", "FINAL_KAF">>,
           <<"YOD", "VAV", "FINAL_MEM">>,
           <<"AYIN", "BET", "YOD", "RESH", "HE", "SP", "BET", "YOD", "VAV", "FINAL_MEM">> >>,
      violationType |->
        << <<"SAMEKH", "AYIN", "YOD", "FINAL_PE", "SP", "HE", "AYIN", "BET", "YOD", "RESH", "HE">>,
           <<"MEM", "SAMEKH", "SP", "AYIN", "BET", "YOD", "RESH", "HE">>,
           <<"SAMEKH", "AYIN", "YOD", "FINAL_PE">>,
           <<"AYIN", "BET", "YOD", "RESH", "HE">>,
           <<"HET", "VAV", "QOF">> >>,
      fineAmount |->
        << <<"SAMEKH", "KAF", "VAV", "FINAL_MEM", "SP", "LAMED", "TAV", "SHIN", "LAMED", "VAV", "FINAL_MEM">>,
           <<"QOF", "NUN", "SAMEKH">>,
           <<"SAMEKH", "KAF", "VAV", "FINAL_MEM">>,
           <<"LAMED", "TAV", "SHIN", "LAMED", "VAV", "FINAL_MEM">>,
           <<"SHIN", "QOF", "LAMED", "YOD", "FINAL_MEM">>,
           <<"SHIN", "DQUOTE", "HET">> >>,
      location |->
        << <<"MEM", "YOD", "QOF", "VAV", "FINAL_MEM">>,
           <<"RESH", "HET", "VAV", "BET">>,
           <<"KAF", "BET", "YOD", "SHIN">>,
           <<"DALET", "RESH", "FINAL_KAF">>,
           <<"SHIN", "DALET", "RESH", "VAV", "TAV">>,
           <<"MEM", "QOF", "VAV", "FINAL_MEM">> >>,
      time |->
        << <<"SHIN", "AYIN", "HE">>,
           <<"ZAYIN", "MEM", "FINAL_NUN">>,
           <<"BET", "SHIN", "AYIN", "HE">> >>,
      points |->
        << <<"NUN", "QOF", "VAV", "DALET", "VAV", "TAV">>,
           <<"NUN", "QOF">>,
           <<"NUN", "QOF", "VAV", "DALET", "HE">> >>,
      driverName |->
        << <<"ALEF", "LAMED", "SP", "HE", "NUN", "HE", "GIMEL">>,
           <<"NUN", "HE", "GIMEL">>,
           <<"SHIN", "FINAL_MEM">>,
           <<"MEM", "RESH">>,
           <<"GIMEL", "BET">> >>,
      licenseNumber |->
        << <<"MEM", "SAMEKH", "PE", "RESH", "SP", "RESH", "YOD", "SHIN", "VAV", "YOD">>,
           <<"RESH", "YOD", "SHIN", "YOD", "VAV", "FINAL_NUN">>,
           <<"RESH", "YOD", "SHIN", "VAV", "YOD">> >>
    ]

\* Object.entries(TRAFFIC_KEYWORDS) lists the keys in this order.
FieldTypeOrder ==
    <<"reportNumber", "violationDate", "violationType", "fineAmount", "location", "time", "points", "driverName", "licenseNumber">>

FieldTypes == {FieldTypeOrder[k] : k \in 1..Len(FieldTypeOrder)}

\* One row of the matrix: row holds matrix[i][0..j-1], above is matrix[i-1].
RECURSIVE FillRow(_, _, _, _)
FillRow(above, c, str2, row) ==
    IF Len(row) > Len(str2) THEN row
    ELSE FillRow(above, c, str2,
                 Append(row,
                        Min(Min(above[Len(row) + 1] + 1, row[Len(row)] + 1),
                            above[Len(row)] + (IF c = str2[Len(row)] THEN 0 ELSE 1))))

\* The outer loop: matrix holds the rows matrix[0..i-1] filled so far.
RECURSIVE FillMatrix(_, _, _)
FillMatrix(str1, str2, matrix) ==
    IF Len(matrix) > Len(str1) THEN matrix
    ELSE FillMatrix(str1, str2,
                    Append(matrix,
                           FillRow(matrix[Len(matrix)], str1[Len(matrix)], str2,
                                   <<Len(matrix)>>)))

\* Levenshtein distance: matrix[len1][len2].
editDistance(str1, str2) ==
    FillMatrix(str1, str2,
               <<[j \in 1..(Len(str2) + 1) |-> j - 1]>>)[Len(str1) + 1][Len(str2) + 1]

\* Characters outside the classes U+0590..U+05FF and U+0020..U+007F.
NotHebrewNorAscii == {"TAB", "NL", "CTL", "COMB", "E_ACUTE"}

\* word.replace(/[^\u0590-\u05FF\u0020-\u007F]/g, '').trim()
CleanWord(word) == Trim(FilterSeq(word, NotHebrewNorAscii))

MaxOf(a, b) == IF a >= b THEN a ELSE b

\* Rationals are records [num, den] with den > 0.
\* similarity = 1 - distance / Math.max(cleanWord.length, keyword.length)
Similarity(cleanWord, keyword, distance) ==
    [num |-> MaxOf(Len(cleanWord), Len(keyword)) - distance,
     den |-> MaxOf(Len(cleanWord), Len(keyword))]

\* q >= 0.7
AtLeastSevenTenths(q) == 10 * q.num >= 7 * q.den

\* A matcher that knows the distance rule only.
DistanceOnlyMatches(cleanWord, keyword, distance, threshold) ==
    distance <= threshold

\* distance <= threshold || similarity >= 0.7
DistanceMatches(cleanWord, keyword, distance, threshold) ==
    \/ distance <= threshold
    \/ AtLeastSevenTenths(Similarity(cleanWord, keyword, distance))

KeywordMatches(cleanWord, keyword, threshold) ==
    DistanceMatches(cleanWord, keyword, editDistance(cleanWord, keyword), threshold)

NoMatch == [match |-> FALSE]

\* return { match: true, keyword, similarity, distance }
Matched(cleanWord, keyword, distance) ==
    [match |-> TRUE,
     keyword |-> keyword,
     similarity |-> Similarity(cleanWord, keyword, distance),
     distance |-> distance]

\* What the loop returns at the keyword of index k (0: the loop ended).
FuzzyMatchAt(cleanWord, keywords, k) ==
    IF k = 0 THEN NoMatch
    ELSE Matched(cleanWord, keywords[k], editDistance(cleanWord, keywords[k]))

\* The keywords are tried in list order and the first that matches is
\* returned.
FirstMatch(cleanWord, keywords, threshold) ==
    FuzzyMatchAt(cleanWord, keywords,
                 FirstPos({k \in 1..Len(keywords) :
                              KeywordMatches(cleanWord, keywords[k], threshold)}))

isFuzzyMatch(word, keywords, threshold) ==
    FirstMatch(CleanWord(word), keywords, threshold)

DefaultThreshold == 2

\* Math.min(0.95, similarity + 0.1)
DetectionConfidence(similarity) ==
    [num |-> Min(95 * similarity.den, 100 * similarity.num + 10 * similarity.den),
     den |-> 100 * similarity.den]

\* A field type that detectedFields has no key for.
NotDetected == [lineIndex |-> -1]

NoDetectedFields == [f \in FieldTypes |-> NotDetected]

\* The object assigned to detectedFields[fieldType] for the line of
\* (one-based) position i.
DetectedField(lines, i, fuzzyMatch) ==
    [lineIndex |-> i - 1,
     line |-> lines[i],
     nextLine |-> IF i < Len(lines) THEN lines[i + 1] ELSE <<>>,
     matchedKeyword |-> fuzzyMatch.keyword,
     similarity |-> fuzzyMatch.similarity,
     confidence |-> DetectionConfidence(fuzzyMatch.similarity)]

\* A detector that keeps the first line matched for a field type.
AssignedKeepFirst(lines, i, before, fuzzyMatch) ==
    IF fuzzyMatch.match /\ before = [lineIndex |-> -1]
    THEN [lineIndex |-> i - 1,
          line |-> lines[i],
          nextLine |-> IF i < Len(lines) THEN lines[i + 1] ELSE <<>>,
          matchedKeyword |-> fuzzyMatch.keyword,
          similarity |-> fuzzyMatch.similarity,
          confidence |-> DetectionConfidence(fuzzyMatch.similarity)]
    ELSE before

\* if (fuzzyMatch.match) detectedFields[fieldType] = {...}
Assigned(lines, i, before, fuzzyMatch) ==
    IF fuzzyMatch.match THEN DetectedField(lines, i, fuzzyMatch) ELSE before

\* The inner loop over the field types for one line.
DetectLine(lines, i, detectedFields) ==
    [f \in FieldTypes |->
        Assigned(lines, i, detectedFields[f],
                 isFuzzyMatch(lines[i], TRAFFIC_KEYWORDS[f], DefaultThreshold))]

RECURSIVE DetectLoop(_, _, _)
DetectLoop(lines, i, detectedFields) ==
    IF i > Len(lines) THEN detectedFields
    ELSE DetectLoop(lines, i + 1, DetectLine(lines, i, detectedFields))

detectFieldTypes(lines) == DetectLoop(lines, 1, NoDetectedFields)

\* -------------------------------- textPreprocessingService.js: patterns
\* The class [U+05D0-U+05EA].
HebrewLetters ==
    {"ALEF", "AYIN", "BET", "DALET", "FINAL_KAF", "FINAL_MEM", "FINAL_NUN",
     "FINAL_PE", "FINAL_TSADI", "GIMEL", "HE", "HET", "KAF", "LAMED",
     "MEM", "NUN", "PE", "QOF", "RESH", "SAMEKH", "SHIN",
     "TAV", "TET", "TSADI", "VAV", "YOD", "ZAYIN"}

CharIs(s, i, c) == i <= Len(s) /\ s[i] = c

WordAt(s, i, word) ==
    i + Len(word) - 1 <= Len(s) /\ SubSeq(s, i, i + Len(word) - 1) = word

\* The length of the run of characters of class that starts at position i.
RECURSIVE ClassRun(_, _, _)
ClassRun(s, i, class) ==
    IF i <= Len(s) /\ s[i] \in class THEN 1 + ClassRun(s, i + 1, class) ELSE 0

\* The patterns of each field type, in the order of the arrays.
patterns ==
    [reportNumber |-> <<"digits6", "hyphenated">>,
     violationDate |-> <<"dmySlash", "dmyDot", "ymd">>,
     time |-> <<"hmColon", "hmDot">>,
     fineAmount |-> <<"amountPlain", "amountCommas">>,
     points |-> <<"pointsBefore", "pointsAfter">>,
     violationType |-> <<"numberParen", "section">>]

\* /\d{6,}/
SixDigitsAt(s, i) == IF RunLen(s, i) >= 6 THEN RunLen(s, i) ELSE 0

\* /\d{3,}-\d{3,}/
HyphenatedAt(s, i) ==
    LET a == RunLen(s, i)
        b == RunLen(s, i + RunLen(s, i) + 1)
    IN  IF a >= 3 /\ CharIs(s, i + a, "-") /\ b >= 3 THEN a + 1 + b ELSE 0

\* /\d{1,2}X\d{1,2}X\d{4}/ for the separator X
DayMonthYearAt(s, i, sep) ==
    LET a == RunLen(s, i)
        b == RunLen(s, i + RunLen(s, i) + 1)
    IN  IF /\ a \in {1, 2} /\ CharIs(s, i + a, sep)
           /\ b \in {1, 2} /\ CharIs(s, i + a + 1 + b, sep)
           /\ RunLen(s, i + a + b + 2) >= 4
        THEN a + b + 6 ELSE 0

\* /\d{4}-\d{1,2}-\d{1,2}/
YearMonthDayAt(s, i) ==
    LET b == RunLen(s, i + 5)
    IN  IF /\ RunLen(s, i) = 4 /\ CharIs(s, i + 4, "-")
           /\ b \in {1, 2} /\ CharIs(s, i + 5 + b, "-")
           /\ RunLen(s, i + 6 + b) >= 1
        THEN 6 + b + Min(RunLen(s, i + 6 + b), 2) ELSE 0

\* /\d{1,2}X\d{2}/ for the separator X
HourMinuteAt(s, i, sep) ==
    LET a == RunLen(s, i)
    IN  IF a \in {1, 2} /\ CharIs(s, i + a, sep) /\ RunLen(s, i + a + 1) >= 2
        THEN a + 3 ELSE 0

\* (?:\.\d{2})? at position e: the length it takes.
DecimalsAt(s, e) == IF CharIs(s, e, ".") /\ RunLen(s, e + 1) >= 2 THEN 3 ELSE 0

\* /\d{2,4}(?:\.\d{2})?/
AmountPlainAt(s, i) ==
    LET a == Min(RunLen(s, i), 4)
    IN  IF a >= 2 THEN a + DecimalsAt(s, i + a) ELSE 0

\* (?:,\d{3})* at position e: the length it takes.
RECURSIVE ThousandsAt(_, _)
ThousandsAt(s, e) ==
    IF CharIs(s, e, ",") /\ RunLen(s, e + 1) >= 3
    THEN 4 + ThousandsAt(s, e + 4) ELSE 0

\* /\d{1,3}(?:,\d{3})*(?:\.\d{2})?/
AmountCommasAt(s, i) ==
    LET a == Min(RunLen(s, i), 3)
        g == ThousandsAt(s, i + Min(RunLen(s, i), 3))
    IN  IF a >= 1 THEN a + g + DecimalsAt(s, i + a + g) ELSE 0

Nekud == <<"NUN", "QOF", "VAV", "DALET">>
Seif == <<"SAMEKH", "AYIN", "YOD", "FINAL_PE">>

\* /\d{1,2}(?=\s*NEKUD)/
PointsBeforeAt(s, i) ==
    LET a == RunLen(s, i)
    IN  IF a \in {1, 2} /\ WordAt(s, SkipSpaces(s, i + a), Nekud) THEN a ELSE 0

\* /(?:NEKUD[VAV TAV]*\s*)\d{1,2}/
PointsAfterAt(s, i) ==
    LET e == SkipSpaces(s, i + 4 + ClassRun(s, i + 4, {"VAV", "TAV"}))
    IN  IF WordAt(s, i, Nekud) /\ RunLen(s, e) >= 1
        THEN e - i + Min(RunLen(s, e), 2) ELSE 0

\* /\d+\s*\([^)]+\)/
NumberParenAt(s, i) ==
    LET e == SkipSpaces(s, i + RunLen(s, i))
        close == FirstPos({k \in (e + 1)..Len(s) : s[k] = ")"})
    IN  IF RunLen(s, i) >= 1 /\ CharIs(s, e, "(") /\ close > e + 1
        THEN close - i + 1 ELSE 0

\* /SEIF\s*\d+[ALEF-TAV]*/
SectionAt(s, i) ==
    LET e == SkipSpaces(s, i + 4)
    IN  IF WordAt(s, i, Seif) /\ RunLen(s, e) >= 1
        THEN e - i + RunLen(s, e) + ClassRun(s, e + RunLen(s, e), HebrewLetters)
        ELSE 0

\* The length of the match of pattern that starts at position i, 0 when
\* there is none (no pattern matches the empty string).
MatchLen(s, i, pattern) ==
    CASE pattern = "digits6" -> SixDigitsAt(s, i)
      [] pattern = "hyphenated" -> HyphenatedAt(s, i)
      [] pattern = "dmySlash" -> DayMonthYearAt(s, i, "/")
      [] pattern = "dmyDot" -> DayMonthYearAt(s, i, ".")
      [] pattern = "ymd" -> YearMonthDayAt(s, i)
      [] pattern = "hmColon" -> HourMinuteAt(s, i, ":")
      [] pattern = "hmDot" -> HourMinuteAt(s, i, ".")
      [] pattern = "amountPlain" -> AmountPlainAt(s, i)
      [] pattern = "amountCommas" -> AmountCommasAt(s, i)
      [] pattern = "pointsBefore" -> PointsBeforeAt(s, i)
      [] pattern = "pointsAfter" -> PointsAfterAt(s, i)
      [] pattern = "numberParen" -> NumberParenAt(s, i)
      [] pattern = "section" -> SectionAt(s, i)

\* text.match(pattern) with the g flag: the matches from lastIndex on, each
\* search resuming where the previous match ended.
RECURSIVE GlobalMatches(_, _, _)
MatchesFrom(text, pattern, i) ==
    IF i = 0 THEN <<>>
    ELSE <<SubSeq(text, i, i + MatchLen(text, i, pattern) - 1)>>
            \o GlobalMatches(text, pattern, i + MatchLen(text, i, pattern))

GlobalMatches(text, pattern, lastIndex) ==
    MatchesFrom(text, pattern,
                FirstPos({k \in lastIndex..Len(text) : MatchLen(text, k, pattern) > 0}))

\* Mutant: the loop ends at the first pattern that matches.
RECURSIVE PushFirstFound(_, _)
PushFirstFound(text, fieldPatterns) ==
    IF fieldPatterns = <<>> THEN <<>>
    ELSE IF GlobalMatches(text, Head(fieldPatterns), 1) # <<>>
    THEN GlobalMatches(text, Head(fieldPatterns), 1)
    ELSE PushFirstFound(text, Tail(fieldPatterns))

\* for (const pattern of fieldPatterns) matches.push(...found)
RECURSIVE PushMatches(_, _)
PushMatches(text, fieldPatterns) ==
    IF fieldPatterns = <<>> THEN <<>>
    ELSE GlobalMatches(text, Head(fieldPatterns), 1)
            \o PushMatches(text, Tail(fieldPatterns))

extractValuePatterns(text, fieldType) ==
    PushMatches(text, IF fieldType \in DOMAIN patterns THEN patterns[fieldType] ELSE <<>>)

\* ------------------------------- detectFieldTypes, extractValuePatterns
\* Lines near the keywords and lines holding values.
SampleLines ==
    {
      \* reportNumber keyword 1, a space and nine digits
      <<"MEM", "SAMEKH", "PE", "RESH", "SP", "DALET", "VAV", "HET", "SP", "1", "2", "3", "4", "5", "6", "7", "8", "9">>,
      \* reportNumber keyword 5, a space and six digits
      <<"MEM", "SAMEKH", "QUOTE", "SP", "1", "2", "3", "4", "5", "6">>,
      \* reportNumber keyword 6, a space and two digits
      <<"MEM", "SAMEKH", "PE", "RESH", "SP", "1", "2">>,
      \* reportNumber keyword 1 with its last letter misread
      <<"MEM", "SAMEKH", "PE", "RESH", "SP", "DALET", "VAV", "HE">>,
      \* reportNumber keyword 2 without its first three characters
      <<"YOD", "SP", "DALET", "VAV", "HET", "SP", "MEM", "SAMEKH", "PE", "RESH">>,
      \* violationDate keyword 1, a space and two digits
      <<"TAV", "ALEF", "RESH", "YOD", "FINAL_KAF", "SP", "AYIN", "BET", "YOD", "RESH", "HE", "SP", "1", "2">>,
      \* violationDate keyword 2, a space and a date
      <<"TAV", "ALEF", "RESH", "YOD", "FINAL_KAF", "SP", "1", "/", "2", "/", "2", "0", "2", "4">>,
      \* fineAmount keyword 2 between an e-acute and trailing white space
      <<"E_ACUTE", "QOF", "NUN", "SAMEKH", "TAB", "SP">>,
      \* fineAmount keyword 3, a space and an amount
      <<"SAMEKH", "KAF", "VAV", "FINAL_MEM", "SP", "2", "5", "0">>,
      \* time keyword 1, a space and a time
      <<"SHIN", "AYIN", "HE", "SP", "1", "4", ":", "3", "0">>,
      \* a digit, a space and points keyword 1
      <<"3", "SP", "NUN", "QOF", "VAV", "DALET", "VAV", "TAV">>,
      \* points keyword 1, a space and two digits
      <<"NUN", "QOF", "VAV", "DALET", "VAV", "TAV", "SP", "1", "0">>,
      \* violationType keyword 3, a space, two digits and a letter
      <<"SAMEKH", "AYIN", "YOD", "FINAL_PE", "SP", "1", "2", "ALEF">>,
      \* nine digits
      <<"1", "2", "3", "4", "5", "6", "7", "8", "9">>,
      \* hyphenated digits
      <<"1", "2", "3", "-", "4", "5", "6", "7">>,
      \* a date with slashes
      <<"1", "2", "/", "0", "5", "/", "2", "0", "2", "4">>,
      \* a date with dots and a time with a dot
      <<"1", ".", "2", ".", "2", "0", "2", "4", "SP", "1", "4", ".", "3", "0">>,
      \* a date, year first
      <<"2", "0", "2", "4", "-", "0", "5", "-", "1", "2">>,
      \* an amount with a comma and decimals
      <<"1", ",", "2", "5", "0", ".", "0", "0">>,
      \* a number and a parenthesis
      <<"6", "2", "SP", "(", "a", "b", ")">>,
      \* two digits
      <<"1", "2">>,
      \* one letter
      <<"a">>,
      \* the empty line
      <<>>
    }

\* The lines that may stand around the line under study.
FollowLines ==
    {
      \* reportNumber keyword 6
      <<"MEM", "SAMEKH", "PE", "RESH">>,
      \* points keyword 1
      <<"NUN", "QOF", "VAV", "DALET", "VAV", "TAV">>,
      \* violationDate keyword 2
      <<"TAV", "ALEF", "RESH", "YOD", "FINAL_KAF">>,
      \* nine digits
      <<"1", "2", "3", "4", "5", "6", "7", "8", "9">>,
      \* two digits
      <<"1", "2">>
    }

\* The keywords themselves.
KeywordLines ==
    UNION {{TRAFFIC_KEYWORDS[f][k] : k \in 1..Len(TRAFFIC_KEYWORDS[f])} :
              f \in FieldTypes}

DetOff ==
    /\ dPc = "off"
    /\ dLines = <<>>
    /\ dDetected = NoDetectedFields
    /\ dText = <<>>
    /\ dFieldType = "none"
    /\ dMatches = <<>>

\* The line under study alone, before or after another line, and the
\* documents of three of the other lines.
DetectDocs ==
    {<<l>> : l \in KeywordLines \cup SampleLines}
        \cup {<<l, m>> : l \in KeywordLines \cup SampleLines, m \in FollowLines}
        \cup {<<m, l>> : l \in KeywordLines \cup SampleLines, m \in FollowLines}
        \cup {<<k, l, m>> : k \in FollowLines, l \in FollowLines, m \in FollowLines}

DetInit ==
    /\ dPc = "input"
    /\ dLines \in DetectDocs
    /\ dDetected = NoDetectedFields
    /\ dText = <<>>
    /\ dFieldType = "none"
    /\ dMatches = <<>>

\* detectFieldTypes(dLines)
DetectFields ==
    /\ dPc = "input"
    /\ dDetected' = detectFieldTypes(dLines)
    /\ dPc' = "detected"
    /\ UNCHANGED <<dLines, dText, dFieldType, dMatches>>
    /\ UNCHANGED <<normVars, aiVars, valVars, pipeVars, preVars, ctlVars>>

\* extractValuePatterns(dLines[i], fieldType) for one of the lines.
ExtractPatterns ==
    /\ dPc = "detected"
    /\ \E i \in 1..Len(dLines), fieldType \in FieldTypes :
          /\ dText' = dLines[i]
          /\ dFieldType' = fieldType
          /\ dMatches' = extractValuePatterns(dLines[i], fieldType)
    /\ dPc' = "extracted"
    /\ UNCHANGED <<dLines, dDetected>>
    /\ UNCHANGED <<normVars, aiVars, valVars, pipeVars, preVars, ctlVars>>

DetNext == DetectFields \/ ExtractPatterns

\* ------------------------------- textPreprocessingService.js: pipeline
\* correctHebrewOCRErrors: the corrections are disabled, the text is
\* returned as it is.
correctHebrewOCRErrors(text) == IF text = <<>> THEN <<>> ELSE text

\* if (!text) return '' at the head of normalizeHebrewText, for any value.
NormalizeValue(rawText) ==
    IF ~Truthy(rawText) THEN <<>> ELSE normalizeHebrewText(rawText.s)

\* correctedText.split('\n').filter(line => line.trim().length > 0)
SplitNonBlank(correctedText) ==
    SelectSeq(SplitLines(correctedText), LAMBDA line : Trim(line) # <<>>)

\* A field type that extractedValues has no key for.
NoValues == [values |-> <<>>]

\* if (values.length > 0) extractedValues[fieldType] = {...}
ValuesEntry(fieldInfo, values) ==
    IF values = <<>> THEN NoValues
    ELSE [values |-> values,
          confidence |-> fieldInfo.confidence,
          source |-> fieldInfo.line,
          matchedKeyword |-> fieldInfo.matchedKeyword]

\* The loop over Object.entries(detectedFields).
ExtractedValues(detectedFields) ==
    [f \in FieldTypes |->
        IF detectedFields[f] = NotDetected THEN NoValues
        ELSE ValuesEntry(detectedFields[f],
                         extractValuePatterns(detectedFields[f].line \o <<"SP">>
                                                  \o detectedFields[f].nextLine, f))]

NotPreprocessed ==
    [originalText |-> Null, normalizedText |-> <<>>, correctedText |-> <<>>,
     lines |-> <<>>, detectedFields |-> NoDetectedFields,
     extractedValues |-> [f \in FieldTypes |-> NoValues]]

\* The raw lines the documents are made of.
RawLinePieces ==
    {
      \* one letter
      <<"a">>,
      \* a letter between white space
      <<"SP", "a", "TAB">>,
      \* white space, a control character and letters with a quote and an underscore
      <<"SP", "CTL", "a", "SP", "QUOTE", "b", "UNDERSCORE", "TAB">>,
      \* a control character, a letter and a vertical bar
      <<"CTL", "a", "BAR">>,
      \* the empty line
      <<>>,
      \* white space only
      <<"SP", "TAB">>,
      \* reportNumber keyword 6
      <<"MEM", "SAMEKH", "PE", "RESH">>,
      \* reportNumber keyword 1
      <<"MEM", "SAMEKH", "PE", "RESH", "SP", "DALET", "VAV", "HET">>,
      \* nine digits
      <<"1", "2", "3", "4", "5", "6", "7", "8", "9">>,
      \* fineAmount keyword 2, a space and an amount
      <<"QOF", "NUN", "SAMEKH", "SP", "2", "5", "0">>
    }

\* Documents of at most MaxLines raw lines, and every short text.
PreTexts ==
    {JoinLines(ls) : ls \in SeqsUpTo(RawLinePieces, MaxLines) \ {<<>>}}
        \cup SeqsUpTo(RawChars, MaxLen - 1)

PreOff ==
    /\ qPc = "off"
    /\ qRaw = Null
    /\ qResult = NotPreprocessed

PreInit ==
    /\ qPc = "input"
    /\ qRaw \in {Null} \cup {Str(t) : t \in PreTexts}
    /\ qResult = NotPreprocessed

\* preprocessOCRText(qRaw)
Preprocess ==
    /\ qPc = "input"
    /\ \E normalizedText \in {NormalizeValue(qRaw)} :
         \E correctedText \in {correctHebrewOCRErrors(normalizedText)} :
           \E lines \in {SplitNonBlank(correctedText)} :
             \E detectedFields \in {detectFieldTypes(lines)} :
                qResult' = [originalText |-> qRaw,
                            normalizedText |-> normalizedText,
                            correctedText |-> correctedText,
                            lines |-> lines,
                            detectedFields |-> detectedFields,
                            extractedValues |-> ExtractedValues(detectedFields)]
    /\ qPc' = "done"
    /\ UNCHANGED qRaw
    /\ UNCHANGED <<normVars, aiVars, valVars, pipeVars, detVars, ctlVars>>

PreNext == Preprocess

\* --------------------------------------------- reportsService.js (store)
\* A report row that holds no OCR results yet.
NoOcrResults == [pipeline |-> "null"]

NoAnalysisResults == [analysis |-> "null"]

NoReport ==
    [exists |-> FALSE, user_id |-> "none", status |-> "none",
     ocr_results |-> NoOcrResults, analysis_results |-> NoAnalysisResults,
     error_message |-> "none"]

\* createReport: the row inserted.
createReport(userId) ==
    [exists |-> TRUE, user_id |-> userId, status |-> "uploaded",
     ocr_results |-> NoOcrResults, analysis_results |-> NoAnalysisResults,
     error_message |-> "none"]

\* updateReportOCR: the row after the update.
updateReportOCR(report, ocrResults) ==
    [report EXCEPT !.ocr_results = ocrResults, !.status = "ocr_complete"]

\* Mutant: the update writes the status and leaves the results.
updateReportAnalysisStatusOnly(report, analysisResults) ==
    [report EXCEPT !.status = "complete"]

\* updateReportAnalysis: the row after the update.
updateReportAnalysis(report, analysisResults) ==
    [report EXCEPT !.analysis_results = analysisResults, !.status = "complete"]

\* Mutant: the update writes the message and leaves the status.
updateReportStatusKeepsStatus(report, status, errorMessage) ==
    [report EXCEPT !.error_message = IF errorMessage = "none" THEN @ ELSE errorMessage]

\* updateReportStatus: the row after the update.
updateReportStatus(report, status, errorMessage) ==
    [report EXCEPT !.status = status,
                   !.error_message = IF errorMessage = "none" THEN @ ELSE errorMessage]

\* What the update leaves in the table: the new row when the database
\* accepts it, the old one when it answers with an error.
Stored(report, updated, accepted) ==
    IF accepted /\ report.exists THEN updated ELSE report

\* The `success` of what the update returns.
Success(accepted) == IF accepted THEN "true" ELSE "false"

\* ----------------------------------------- controller: analyzeDocument
\* 0.95 in units of 1/FinalOne.
CorrectedConfidence == 95 * (FinalOne \div 100)

\* correctedFields[fieldName] && correctedFields[fieldName].trim() raises
\* for a truthy value that is no string.
TrimRaises(correctedFields) ==
    \E f \in DOMAIN correctedFields :
        Truthy(correctedFields[f]) /\ correctedFields[f].type # "string"

\* correctedFields[fieldName] && correctedFields[fieldName].trim()
Corrected(correctedFields) ==
    {f \in DOMAIN correctedFields :
        Truthy(correctedFields[f]) /\ Trim(correctedFields[f].s) # <<>>}

\* { ...analysisData.extractedFields, ...correctedFields }
MergedFields(extractedFields, correctedFields) ==
    [f \in CatalogFields |->
        IF f \in DOMAIN correctedFields THEN correctedFields[f]
        ELSE extractedFields[f]]

\* confidenceScores after the forEach.
MergedScores(confidenceScores, correctedFields) ==
    [f \in (DOMAIN confidenceScores) \cup Corrected(correctedFields) |->
        IF f \in Corrected(correctedFields) THEN CorrectedConfidence
        ELSE confidenceScores[f]]

\* requiredFields.filter(field => extractedFields[field] &&
\*                                extractedFields[field].toString().trim())
correctedRequiredFields(extractedFields) ==
    {f \in RequiredFields :
        Truthy(extractedFields[f]) /\ Trim(extractedFields[f].s) # <<>>}

\* validation after "Update validation completeness".
UpdatedValidation(validation, extractedFields) ==
    [validation EXCEPT
        !.completeness =
            (Cardinality(correctedRequiredFields(extractedFields)) * 100)
                \div Len(RequiredOrder),
        !.isValid =
            Cardinality(correctedRequiredFields(extractedFields)) = Len(RequiredOrder)]

\* analysisData as handed to analyzeTrafficViolation.
AnalysisData(ocrResults, corrections) ==
    IF ~corrections.given THEN ocrResults
    ELSE [ocrResults EXCEPT
            !.extractedFields = MergedFields(@, corrections.fields),
            !.confidenceScores = MergedScores(@, corrections.fields),
            !.validation =
                UpdatedValidation(@, MergedFields(ocrResults.extractedFields,
                                                  corrections.fields))]

\* ------------------------------------------------- controller harness
\* The results extractTextFromDocument may hand uploadDocument: two
\* required fields well-formed at confidence 0.9, reportNumber and
\* fineAmount absent, at confidence 0.3 or at confidence 0.9, on the
\* enhanced path; and two results of the legacy path.
CtlFinals ==
    {[extractedFields |->
         [f \in CatalogFields |->
             IF f \in {"violationDate", "violationType"} THEN ExampleValue(f)
             ELSE IF f = "reportNumber" /\ r > 0 THEN ExampleValue(f)
             ELSE IF f = "fineAmount" /\ a > 0 THEN ExampleValue(f)
             ELSE Undefined],
      confidenceScores |->
         [f \in {"violationDate", "violationType"}
                  \cup (IF r > 0 THEN {"reportNumber"} ELSE {})
                  \cup (IF a > 0 THEN {"fineAmount"} ELSE {}) |->
             IF f = "reportNumber" THEN r
             ELSE IF f = "fineAmount" THEN a
             ELSE 9 * (FinalOne \div 10)]] :
        r \in {0, 3 * (FinalOne \div 10), 9 * (FinalOne \div 10)},
        a \in {0, 3 * (FinalOne \div 10), 9 * (FinalOne \div 10)}}

CtlOcrResults ==
    {EnhancedResult(final, validateRequiredFields(final, PipelineMinConfidence)) :
        final \in CtlFinals}
      \cup {createLegacyResult(final.extractedFields, final.confidenceScores, "model failed") :
               final \in {g \in CtlFinals : "fineAmount" \notin DOMAIN g.confidenceScores}}

\* The values a request body may hold for a field.
CorrectionValues ==
    {Str(<<"2", "5", "0">>), Str(<<>>), Str(<<"SP">>), Num(<<"5">>)}

\* req.body.correctedFields: absent, or an object naming some of
\* reportNumber and fineAmount.
CorrectionsOptions ==
    {[given |-> FALSE, fields |-> <<>>]}
      \cup {[given |-> TRUE, fields |-> fs] :
               fs \in UNION {[names -> CorrectionValues] :
                                names \in SUBSET {"reportNumber", "fineAmount"}}}

Users == {"owner", "other"}

AnalysisResults == [analysis |-> "results"]

NoAnalysisData == [pipeline |-> "none"]

CtlOff ==
    /\ cReport = NoReport
    /\ cUp = [pc |-> "off", ocrResults |-> NoOcrResults, updateSuccess |-> "none",
              response |-> "none"]
    /\ cAn = <<>>

CtlInit ==
    /\ cReport = NoReport
    /\ cUp \in {[pc |-> "start", ocrResults |-> NoOcrResults, updateSuccess |-> "none",
                 response |-> "none"]}
    /\ cAn \in [{1} -> {[pc |-> "start", userId |-> u, correctedFields |-> c,
                         report |-> NoReport, analysisData |-> NoAnalysisData,
                         response |-> "none"] :
                            u \in Users, c \in CorrectionsOptions}]

\* Two analyzeDocument requests on the report, each by the owner or by
\* another user, with no override map, a one-field map or a map that raises.
RepeatedCorrections ==
    {c \in CorrectionsOptions :
        \/ ~c.given
        \/ /\ c.given
           /\ DOMAIN c.fields = {"fineAmount"}
           /\ c.fields["fineAmount"] \in {Str(<<"2", "5", "0">>), Num(<<"5">>)}}

CtlInitRepeated ==
    /\ cReport = NoReport
    /\ cUp \in {[pc |-> "start", ocrResults |-> NoOcrResults, updateSuccess |-> "none",
                 response |-> "none"]}
    /\ cAn \in [{1, 2} -> {[pc |-> "start", userId |-> u, correctedFields |-> c,
                            report |-> NoReport, analysisData |-> NoAnalysisData,
                            response |-> "none"] :
                               u \in Users, c \in RepeatedCorrections}]

\* ------------------------------------------ controller: uploadDocument
\* if (!req.file) return res.status(400)
UploadNoFile ==
    /\ cUp.pc = "start"
    /\ cUp' = [cUp EXCEPT !.pc = "responded", !.response = "400 No file uploaded"]
    /\ UNCHANGED <<cReport, cAn>>
    /\ UNCHANGED <<normVars, aiVars, valVars, pipeVars, detVars, preVars>>

\* await createReport: the row is inserted, or the database refuses and
\* the request is answered 500.
UploadCreatesReport ==
    /\ cUp.pc = "start"
    /\ ~cReport.exists
    /\ \E accepted \in BOOLEAN :
          /\ cReport' = IF accepted THEN createReport("owner") ELSE cReport
          /\ cUp' = IF accepted THEN [cUp EXCEPT !.pc = "extract"]
                    ELSE [cUp EXCEPT !.pc = "responded",
                                     !.response = "500 Database error"]
    /\ UNCHANGED cAn
    /\ UNCHANGED <<normVars, aiVars, valVars, pipeVars, detVars, preVars>>

\* await extractTextFromDocument returns.
ExtractReturns ==
    /\ cUp.pc = "extract"
    /\ \E ocrResults \in CtlOcrResults :
          cUp' = [cUp EXCEPT !.pc = "storeOcr", !.ocrResults = ocrResults]
    /\ UNCHANGED <<cReport, cAn>>
    /\ UNCHANGED <<normVars, aiVars, valVars, pipeVars, detVars, preVars>>

\* await extractTextFromDocument raises: the catch block is entered.
ExtractRaises ==
    /\ cUp.pc = "extract"
    /\ cUp' = [cUp EXCEPT !.pc = "markError"]
    /\ UNCHANGED <<cReport, cAn>>
    /\ UNCHANGED <<normVars, aiVars, valVars, pipeVars, detVars, preVars>>

\* await updateReportOCR, whose failure is logged only, then status 200.
UploadStoresOcr ==
    /\ cUp.pc = "storeOcr"
    /\ \E accepted \in BOOLEAN :
          /\ cReport' = Stored(cReport, updateReportOCR(cReport, cUp.ocrResults), accepted)
          /\ cUp' = [cUp EXCEPT !.pc = "responded", !.response = "200 success",
                                !.updateSuccess = Success(accepted)]
    /\ UNCHANGED cAn
    /\ UNCHANGED <<normVars, aiVars, valVars, pipeVars, detVars, preVars>>

\* catch (ocrError): await updateReportStatus(report.id, 'error', ...),
\* whose result is not read, then status 500.
UploadMarksError ==
    /\ cUp.pc = "markError"
    /\ \E accepted \in BOOLEAN :
          /\ cReport' = Stored(cReport, updateReportStatus(cReport, "error", "ocr error"),
                               accepted)
          /\ cUp' = [cUp EXCEPT !.pc = "responded",
                                !.response = "500 OCR processing failed",
                                !.updateSuccess = Success(accepted)]
    /\ UNCHANGED cAn
    /\ UNCHANGED <<normVars, aiVars, valVars, pipeVars, detVars, preVars>>

\* ----------------------------------------- controller: analyzeDocument
\* await getReportById fails: status 404.
AnalyzeNotFound(r) ==
    /\ cAn[r].pc = "start"
    /\ cAn' = [cAn EXCEPT ![r].pc = "responded", ![r].response = "404 Report not found"]
    /\ UNCHANGED <<cReport, cUp>>
    /\ UNCHANGED <<normVars, aiVars, valVars, pipeVars, detVars, preVars>>

\* await getReportById succeeds; the checks up to the next await.
AnalyzeReadsReport(r) ==
    /\ cAn[r].pc = "start"
    /\ cReport.exists
    /\ cAn' = [cAn EXCEPT
                  ![r].report = cReport,
                  ![r].pc = IF cAn[r].userId # cReport.user_id THEN "responded"
                            ELSE IF cReport.ocr_results = NoOcrResults THEN "responded"
                            ELSE "markProcessing",
                  ![r].response = IF cAn[r].userId # cReport.user_id THEN "403 Forbidden"
                                  ELSE IF cReport.ocr_results = NoOcrResults
                                  THEN "400 OCR not completed"
                                  ELSE "none"]
    /\ UNCHANGED <<cReport, cUp>>
    /\ UNCHANGED <<normVars, aiVars, valVars, pipeVars, detVars, preVars>>

\* await updateReportStatus(reportId, 'ai_processing'), then analysisData
\* is prepared; a correction that raises enters the catch block.
AnalyzeMarksProcessing(r) ==
    /\ cAn[r].pc = "markProcessing"
    /\ \E accepted \in BOOLEAN :
          cReport' = Stored(cReport, updateReportStatus(cReport, "ai_processing", "none"),
                            accepted)
    /\ cAn' = IF cAn[r].correctedFields.given /\ TrimRaises(cAn[r].correctedFields.fields)
              THEN [cAn EXCEPT ![r].pc = "markError"]
              ELSE [cAn EXCEPT ![r].pc = "analyze",
                               ![r].analysisData =
                                   AnalysisData(cAn[r].report.ocr_results,
                                                cAn[r].correctedFields)]
    /\ UNCHANGED cUp
    /\ UNCHANGED <<normVars, aiVars, valVars, pipeVars, detVars, preVars>>

\* await analyzeTrafficViolation(analysisData) returns.
AnalysisReturns(r) ==
    /\ cAn[r].pc = "analyze"
    /\ cAn' = [cAn EXCEPT ![r].pc = "storeAnalysis"]
    /\ UNCHANGED <<cReport, cUp>>
    /\ UNCHANGED <<normVars, aiVars, valVars, pipeVars, detVars, preVars>>

\* await analyzeTrafficViolation(analysisData) raises.
AnalysisRaises(r) ==
    /\ cAn[r].pc = "analyze"
    /\ cAn' = [cAn EXCEPT ![r].pc = "markError"]
    /\ UNCHANGED <<cReport, cUp>>
    /\ UNCHANGED <<normVars, aiVars, valVars, pipeVars, detVars, preVars>>

\* await updateReportAnalysis, whose failure is logged only, then 200.
AnalyzeStoresResults(r) ==
    /\ cAn[r].pc = "storeAnalysis"
    /\ \E accepted \in BOOLEAN :
          cReport' = Stored(cReport, updateReportAnalysis(cReport, AnalysisResults),
                            accepted)
    /\ cAn' = [cAn EXCEPT ![r].pc = "responded", ![r].response = "200 success"]
    /\ UNCHANGED cUp
    /\ UNCHANGED <<normVars, aiVars, valVars, pipeVars, detVars, preVars>>

\* catch (analysisError): await updateReportStatus(reportId, 'error', ...),
\* then status 500.
AnalyzeMarksError(r) ==
    /\ cAn[r].pc = "markError"
    /\ \E accepted \in BOOLEAN :
          cReport' = Stored(cReport, updateReportStatus(cReport, "error", "analysis error"),
                            accepted)
    /\ cAn' = [cAn EXCEPT ![r].pc = "responded", ![r].response = "500 Analysis failed"]
    /\ UNCHANGED cUp
    /\ UNCHANGED <<normVars, aiVars, valVars, pipeVars, detVars, preVars>>

CtlNext ==
    \/ UploadNoFile
    \/ UploadCreatesReport
    \/ ExtractReturns
    \/ ExtractRaises
    \/ UploadStoresOcr
    \/ UploadMarksError
    \/ \E r \in DOMAIN cAn : AnalyzeNotFound(r)
    \/ \E r \in DOMAIN cAn : AnalyzeReadsReport(r)
    \/ \E r \in DOMAIN cAn : AnalyzeMarksProcessing(r)
    \/ \E r \in DOMAIN cAn : AnalysisReturns(r)
    \/ \E r \in DOMAIN cAn : AnalysisRaises(r)
    \/ \E r \in DOMAIN cAn : AnalyzeStoresResults(r)
    \/ \E r \in DOMAIN cAn : AnalyzeMarksError(r)


\* --------------------------------------------------------- specifications
InitNorm == NormInit /\ AiOff /\ ValOff /\ PipeOff /\ DetOff /\ PreOff /\ CtlOff
SpecNorm == InitNorm /\ [][NormNext]_vars

InitAI == AiInit /\ NormOff /\ ValOff /\ PipeOff /\ DetOff /\ PreOff /\ CtlOff
SpecAI == InitAI /\ [][AiNext]_vars

InitValidate == ValInit /\ NormOff /\ AiOff /\ PipeOff /\ DetOff /\ PreOff /\ CtlOff
SpecValidate == InitValidate /\ [][ValNext]_vars

InitPipe == PipeInit /\ NormOff /\ AiOff /\ ValOff /\ DetOff /\ PreOff /\ CtlOff
Spec == InitPipe /\ [][PipeNext]_vars

InitDetect == DetInit /\ NormOff /\ AiOff /\ ValOff /\ PipeOff /\ PreOff /\ CtlOff
SpecDetect == InitDetect /\ [][DetNext]_vars

InitPre == PreInit /\ NormOff /\ AiOff /\ ValOff /\ PipeOff /\ DetOff /\ CtlOff
SpecPre == InitPre /\ [][PreNext]_vars

InitCtl == CtlInit /\ NormOff /\ AiOff /\ ValOff /\ PipeOff /\ DetOff /\ PreOff
SpecCtl == InitCtl /\ [][CtlNext]_vars

InitCtlRepeated ==
    CtlInitRepeated /\ NormOff /\ AiOff /\ ValOff /\ PipeOff /\ DetOff /\ PreOff
SpecCtlRepeated == InitCtlRepeated /\ [][CtlNext]_vars

\* extractTextFromDocument where every OCR call is answered, with a result
\* or an error; nothing is assumed of the model call.
OcrAnswers == OcrRaises \/ OcrReturnsBlank \/ OcrReturnsText

FallbackOcrAnswers == FallbackOcrRaises \/ FallbackOcrReturns

SpecLive ==
    InitPipe /\ [][PipeNext]_vars /\ WF_vars(OcrAnswers) /\ WF_vars(FallbackOcrAnswers)

\* ---------------------------------------------------------------- claims

\* C1: normalizeHebrewText is idempotent: normalizing the normalized text
\* again yields the same text, for every input.
C1_Idempotent == nPc = "twice" => nTwice = nOnce

\* What the deterministic parser finds in the text of the first OCR call.
ParsedFromText == parseOCRTextWithConfidence(pText)

\* C2: extractTextFromDocument throws only after both the try block and
\* the fallback of the catch block raised, never because the model call
\* failed; and when the model call raises, or answers with something that
\* is not JSON, the result returned holds every required field the parser
\* finds in the text.
C2_ThrowsOnlyWhenBothRaise ==
    /\ pPc = "thrown" =>
          /\ pError # "none"
          /\ pOcrCalls = 2
          /\ pCompletion.kind = "pending"
    /\ (pPc = "returned" /\ pCompletion.kind \in {"raise", "malformed"}) =>
          /\ pError = "none"
          /\ \A f \in RequiredFields :
                Truthy(ParsedFromText.extractedFields[f])
                    => pResult.extractedFields[f] = ParsedFromText.extractedFields[f]

\* The model call raised, the parser found the report number in the text,
\* and the result returned holds it.
C2_Witness ==
    /\ pPc = "returned"
    /\ pCompletion.kind = "raise"
    /\ Truthy(ParsedFromText.extractedFields["reportNumber"])
    /\ pResult.extractedFields["reportNumber"] = Str(<<"1", "2", "3", "4", "5", "6">>)

\* C3: once the first OCR call raised or returned no text, the invocation
\* returns no result and runs neither the model nor the parser.
C3_RecognitionFailureIsFatal ==
    pError \in {"ocr", "no text"} =>
        /\ pPc # "returned"
        /\ pModelCalls = 0
        /\ pParserRuns = 0

\* The required fields a returned result holds at the pipeline's threshold.
RequiredValid ==
    {f \in RequiredFields :
        /\ Truthy(pResult.extractedFields[f])
        /\ ScoreOf(pResult.confidenceScores, f) >= PipelineMinConfidence}

\* C4: on either path, the completeness of a returned result is the share
\* of the four required fields it holds with confidence >= 0.6, times 100.
C4_CompletenessFormula ==
    pPc = "returned" =>
        4 * pResult.validation.completeness = 100 * Cardinality(RequiredValid)

\* C5: on either path, a returned result is valid only if it holds all
\* four required fields at the threshold, lists every required field it
\* lacks as missing, and every one it holds below the threshold as
\* low-confidence.
C5_ValidationLists ==
    pPc = "returned" =>
        /\ pResult.validation.isValid => RequiredValid = RequiredFields
        /\ \A f \in RequiredFields :
              ~Truthy(pResult.extractedFields[f])
                  => \E i \in 1..Len(pResult.validation.missingFields) :
                         pResult.validation.missingFields[i] = f
        /\ \A f \in RequiredFields \ RequiredValid :
              Truthy(pResult.extractedFields[f])
                  => \E i \in 1..Len(pResult.validation.lowConfidenceFields) :
                         pResult.validation.lowConfidenceFields[i].field = f

\* The watch-list fields the model's result lacks and the parser, run on
\* the text for the gap-fill, finds.
GapFilled ==
    {f \in WatchList :
        /\ ~Truthy(pAi.extractedFields[f])
        /\ Truthy(pLegacy.extractedFields[f])}

\* C7: after a successful model pass, a watch-list field the model's
\* result lacks and the parser finds is returned with the parser's value
\* and the parser's confidence; every other field is returned with the
\* value and the confidence of the model's result.
C7_GapFillFrame ==
    (pPc = "returned" /\ pAi.success) =>
        /\ MissingWatched(pAi) # {} => pLegacy = ParsedFromText
        /\ \A f \in GapFilled :
              /\ pResult.extractedFields[f] = pLegacy.extractedFields[f]
              /\ f \in DOMAIN pResult.confidenceScores
              /\ pResult.confidenceScores[f] = ScoreOf(pLegacy.confidenceScores, f)
        /\ \A f \in CatalogFields \ GapFilled :
              /\ pResult.extractedFields[f] = pAi.extractedFields[f]
              /\ f \in DOMAIN pResult.confidenceScores <=> f \in DOMAIN pAi.confidenceScores
              /\ f \in DOMAIN pAi.confidenceScores
                    => pResult.confidenceScores[f] = pAi.confidenceScores[f]

\* The model omitted points and supplied vehiclePlate; the parser found
\* points "6" on a line of confidence 0.7, and the result holds both.
C7_Witness ==
    /\ pPc = "returned"
    /\ pAi.success
    /\ pAi.extractedFields["points"] = Null
    /\ Truthy(pAi.extractedFields["vehiclePlate"])
    /\ pResult.extractedFields["points"] = Str(<<"6">>)
    /\ pResult.confidenceScores["points"] = 7 * Milli * Milli
    /\ pResult.extractedFields["vehiclePlate"] = pAi.extractedFields["vehiclePlate"]

\* The classes of C6, read off the result handed in.
AbsentValues == {Undefined, Null, Str(<<>>)}
MissingClass == {f \in RequiredFields : vResult.extractedFields[f] \in AbsentValues}
LowClass ==
    {f \in RequiredFields : /\ vResult.extractedFields[f] \notin AbsentValues
                            /\ vResult.confidenceScores[f] < vMinConfidence}
ValidClass ==
    {f \in RequiredFields : /\ vResult.extractedFields[f] \notin AbsentValues
                            /\ vResult.confidenceScores[f] >= vMinConfidence}

\* C6: validateRequiredFields lists each required field exactly once, as
\* missing iff its value is absent and as low-confidence iff it is present
\* below the threshold; the others are the valid ones, completeness is
\* valid/4 * 100, and isValid holds iff both lists are empty.
C6_ThreeClasses ==
    vPc = "validated" =>
        /\ Len(vValidation.missingFields) = Cardinality(MissingClass)
        /\ {vValidation.missingFields[i] : i \in 1..Len(vValidation.missingFields)}
               = MissingClass
        /\ Len(vValidation.lowConfidenceFields) = Cardinality(LowClass)
        /\ {vValidation.lowConfidenceFields[i].field :
               i \in 1..Len(vValidation.lowConfidenceFields)} = LowClass
        /\ 4 * vValidation.completeness = 100 * Cardinality(ValidClass)
        /\ vValidation.isValid <=> (MissingClass = {} /\ LowClass = {})

\* The scenario of C6: four required fields present at 0.9, threshold 0.6,
\* validated with completeness 100.
C6_Witness ==
    /\ vPc = "validated"
    /\ vMinConfidence = 6 * Milli * Milli
    /\ \A f \in RequiredFields :
          /\ vResult.extractedFields[f] = Str(<<"x">>)
          /\ vResult.confidenceScores[f] = 9 * Milli * Milli
    /\ vValidation.completeness = 100
    /\ vValidation.isValid

\* The fields of the model's answer that do not pass validateFieldValue.
FailingFields ==
    {f \in CatalogFields :
        /\ HasValue(aCompletion.response.extractedFields[f])
        /\ ~validateFieldValue(f, aCompletion.response.extractedFields[f]).isValid}

\* C8: a value of the model's answer that fails its field's validation
\* costs that field alone: extractFieldsWithAI still succeeds, the field is
\* absent with confidence 0, one note names it, and every other field the
\* answer holds a passing value for is returned.
C8_FailingValueCostsOneField ==
    (aPc = "returned" /\ aCompletion.kind = "json") =>
        \A f \in FailingFields :
            /\ aResult.success
            /\ aResult.extractedFields[f] = Undefined
            /\ ScoreOf(aResult.confidenceScores, f) = 0
            /\ Cardinality({i \in 1..Len(aResult.processingNotes) :
                               aResult.processingNotes[i] = FailedNote(f)}) = 1
            /\ \A g \in CatalogFields \ FailingFields :
                  HasValue(aCompletion.response.extractedFields[g])
                      => Truthy(aResult.extractedFields[g])

\* The shape rules FIELD_DEFINITIONS declares for four optional fields.
IsEightDigits(s) == Len(s) = 8 /\ AllDigits(s)
IsPlate(s) ==
    \/ Len(s) \in 7..8 /\ AllDigits(s)
    \/ /\ Len(s) \in 9..10
       /\ \E i \in 2..3 :
             /\ AllDigits(SubSeq(s, 1, i)) /\ s[i + 1] = "-"
             /\ AllDigits(SubSeq(s, i + 2, i + 3)) /\ s[i + 4] = "-"
             /\ AllDigits(SubSeq(s, i + 5, Len(s))) /\ Len(s) = i + 7
IsDate(s) ==
    \E d \in DateMatches(s) :
        DecimalValue(d[1]) \in 1..31 /\ DecimalValue(d[2]) \in 1..12
IsTime(s) ==
    \E h \in 1..2 :
        /\ Len(s) = h + 3 /\ AllDigits(SubSeq(s, 1, h))
        /\ s[h + 1] = ":" /\ AllDigits(SubSeq(s, h + 2, h + 3))

\* C9: a value returned for licenseNumber, vehiclePlate, appealDeadline or
\* violationTime has the shape its field definition declares.
C9_DeclaredShapeChecked ==
    (aPc = "returned" /\ aResult.success) =>
        /\ Truthy(aResult.extractedFields["licenseNumber"])
              => IsEightDigits(aResult.extractedFields["licenseNumber"].s)
        /\ Truthy(aResult.extractedFields["vehiclePlate"])
              => IsPlate(aResult.extractedFields["vehiclePlate"].s)
        /\ Truthy(aResult.extractedFields["appealDeadline"])
              => IsDate(aResult.extractedFields["appealDeadline"].s)
        /\ Truthy(aResult.extractedFields["violationTime"])
              => IsTime(aResult.extractedFields["violationTime"].s)

\* The accepted fields for which extractedValues has an entry of that name.
DetectorConfidence(f) ==
    LET i == CHOOSE k \in 1..Len(aValues) : aValues[k].field = f
    IN  aValues[i].confidence
AcceptedWithDetector ==
    {f \in CatalogFields :
        /\ Truthy(aResult.extractedFields[f])
        /\ \E k \in 1..Len(aValues) : aValues[k].field = f}

\* C10 as stated: the final confidence of an accepted field with a detector
\* confidence is (0.7 * model-reported + 0.3 * detector) * ocrConfidence.
C10_WeightedModelConfidence ==
    (aPc = "returned" /\ aResult.success) =>
        \A f \in AcceptedWithDetector :
            aResult.confidenceScores[f] =
                (7 * ScoreOf(aCompletion.response.confidenceScores, f)
                     + 3 * DetectorConfidence(f)) * aOcrConfidence

\* The confidence validateFieldValue gives an accepted value, in 1/Milli.
FieldCap(f) ==
    CASE f = "reportNumber" -> 950
      [] f \in {"violationDate", "fineAmount"} -> 900
      [] f \in {"violationTime", "points"} -> 850
      [] OTHER -> 800

\* C10 amended: the model-reported confidence enters the weighted average
\* capped by the confidence validateFieldValue gives the field.
C10_WeightedCappedConfidence ==
    (aPc = "returned" /\ aResult.success) =>
        \A f \in AcceptedWithDetector :
            aResult.confidenceScores[f] =
                (7 * Min(ScoreOf(aCompletion.response.confidenceScores, f), FieldCap(f))
                     + 3 * DetectorConfidence(f)) * aOcrConfidence

\* An accepted reportNumber the model reported at 1.0, with a detector
\* confidence of 0.4 and an OCR confidence of 0.5.
C10_Witness ==
    /\ aPc = "returned"
    /\ aResult.success
    /\ "reportNumber" \in AcceptedWithDetector
    /\ ScoreOf(aCompletion.response.confidenceScores, "reportNumber") = 1000
    /\ DetectorConfidence("reportNumber") = 400
    /\ aOcrConfidence = 500
    /\ aResult.confidenceScores["reportNumber"] = (7 * 950 + 3 * 400) * 500


\* ------------------------------------------------------- detector claims
Detected(f) == dDetected[f] # NotDetected

\* Levenshtein distance <= 2, or 1 - distance / max(lengths) >= 0.7.
CloseAt(cleaned, keyword, distance) ==
    \/ distance <= 2
    \/ 10 * (MaxOf(Len(cleaned), Len(keyword)) - distance)
          >= 7 * MaxOf(Len(cleaned), Len(keyword))

Close(cleaned, keyword) == CloseAt(cleaned, keyword, editDistance(cleaned, keyword))

\* The positions of the lines that some keyword of field type f is close to.
MatchingLines(f) ==
    {i \in 1..Len(dLines) :
        \E k \in 1..Len(TRAFFIC_KEYWORDS[f]) :
            Close(CleanWord(dLines[i]), TRAFFIC_KEYWORDS[f][k])}

\* confidence = min(0.95, similarity + 0.1), compared as rationals.
ConfidenceOfSimilarity(confidence, similarity) ==
    IF 100 * similarity.num + 10 * similarity.den <= 95 * similarity.den
    THEN 10 * similarity.den * confidence.num
            = (10 * similarity.num + similarity.den) * confidence.den
    ELSE 100 * confidence.num = 95 * confidence.den

\* C11: detectFieldTypes reports a field as detected if and only if some
\* line and some keyword of the field are at Levenshtein distance <= 2 or
\* at similarity 1 - distance/max(lengths) >= 0.7 (the line cleaned); the
\* recorded similarity lies in [0,1] and the recorded confidence is
\* min(0.95, similarity + 0.1).
C11_DetectedIffClose ==
    dPc = "detected" =>
        \A f \in FieldTypes :
            /\ Detected(f) <=> MatchingLines(f) # {}
            /\ Detected(f) =>
                  /\ 0 <= dDetected[f].similarity.num
                  /\ dDetected[f].similarity.num <= dDetected[f].similarity.den
                  /\ ConfidenceOfSimilarity(dDetected[f].confidence,
                                            dDetected[f].similarity)

\* A field detected on similarity alone (distance above 2) beside a field
\* that no line matches.
C11_Witness ==
    /\ dPc = "detected"
    /\ \E f \in FieldTypes :
          /\ Detected(f)
          /\ dDetected[f].similarity.den - dDetected[f].similarity.num > 2
    /\ \E g \in FieldTypes : ~Detected(g)

\* C12: a line that equals a keyword of a field exactly is recorded for
\* that field with confidence >= 0.95, whatever the other keywords of the
\* field and their order.
C12_ExactKeywordConfidence ==
    dPc = "detected" =>
        \A f \in FieldTypes : \A i \in 1..Len(dLines) :
            (/\ \E k \in 1..Len(TRAFFIC_KEYWORDS[f]) : dLines[i] = TRAFFIC_KEYWORDS[f][k]
             /\ Detected(f)
             /\ dDetected[f].lineIndex = i - 1)
                => 100 * dDetected[f].confidence.num >= 95 * dDetected[f].confidence.den

\* A keyword of reportNumber, a space and six digits or more.
IsLabelledNumber(line) ==
    \E k \in 1..Len(TRAFFIC_KEYWORDS.reportNumber) :
        LET keyword == TRAFFIC_KEYWORDS.reportNumber[k]
        IN  /\ Len(line) >= Len(keyword) + 7
            /\ SubSeq(line, 1, Len(keyword)) = keyword
            /\ line[Len(keyword) + 1] = "SP"
            /\ \A j \in (Len(keyword) + 2)..Len(line) : line[j] \in Digits

\* The digits that end the line.
TrailingNumber(line) ==
    SubSeq(line, 1 + FirstPos({j \in 1..Len(line) : line[j] = "SP"
                                  /\ \A h \in (j + 1)..Len(line) : line[h] \in Digits}),
           Len(line))

\* C13: a line made of a report-number keyword and a number of six digits
\* or more is detected as reportNumber with similarity >= 0.7, and
\* extractValuePatterns on that line for reportNumber yields that number
\* alone.
C13_LabelledNumberDetected ==
    \A i \in 1..Len(dLines) :
        IsLabelledNumber(dLines[i]) =>
            /\ dPc = "detected" =>
                  /\ Detected("reportNumber")
                  /\ dDetected.reportNumber.lineIndex = i - 1 =>
                        AtLeastSevenTenths(dDetected.reportNumber.similarity)
            /\ (dPc = "extracted" /\ dText = dLines[i] /\ dFieldType = "reportNumber") =>
                  dMatches = <<TrailingNumber(dLines[i])>>

\* The greatest of a non-empty set of positions.
LastPos(positions) == CHOOSE i \in positions : \A j \in positions : j <= i

\* The entry of field type f is the one of the last of the matching lines,
\* and there is none when no line matches.
RecordedForLast(f, matching) ==
    IF matching = {} THEN dDetected[f] = NotDetected
    ELSE /\ dDetected[f].lineIndex = LastPos(matching) - 1
         /\ dDetected[f].line = dLines[LastPos(matching)]

\* C14: detectFieldTypes returns at most one entry per field name; when
\* the keywords of a field match several lines the entry is the one of the
\* last of them, and a field whose keywords match no line is absent.
C14_LastMatchWins ==
    dPc = "detected" =>
        \A f \in FieldTypes : RecordedForLast(f, MatchingLines(f))

\* A field matched on two lines or more beside a field matched on none.
C14_Witness ==
    /\ dPc = "detected"
    /\ \E f \in FieldTypes : Cardinality(MatchingLines(f)) >= 2
    /\ \E g \in FieldTypes : MatchingLines(g) = {}

\* ------------------------------------------------- preprocessing claims
\* The lines of the raw text that are not blank once normalized alone.
RawNonBlankLines(text) ==
    SelectSeq(SplitLines(text), LAMBDA line : normalizeHebrewText(line) # <<>>)

\* C15: normalizeHebrewText preserves newlines, so preprocessOCRText on a
\* raw text with k non-blank lines produces a sequence of k lines.
C15_LinesPreserved ==
    (qPc = "done" /\ qRaw.type = "string") =>
        Len(qResult.lines) = Len(RawNonBlankLines(qRaw.s))

\* C16: every line produced by preprocessOCRText is non-empty, has no
\* leading or trailing white space and holds no control character; an
\* empty or null raw input yields the empty normalized text and no line.
C16_LinesClean ==
    qPc = "done" =>
        /\ \A i \in 1..Len(qResult.lines) :
              /\ qResult.lines[i] # <<>>
              /\ qResult.lines[i][1] \notin WhiteSpace
              /\ qResult.lines[i][Len(qResult.lines[i])] \notin WhiteSpace
              /\ \A j \in 1..Len(qResult.lines[i]) :
                    qResult.lines[i][j] \notin ControlChars \cup {"TAB", "NL"}
        /\ (qRaw = Null \/ qRaw = Str(<<>>)) =>
              (qResult.normalizedText = <<>> /\ qResult.lines = <<>>)

\* A raw text that starts with white space, holds a control character and
\* a stray quote, and yields a line.
C16_Witness ==
    /\ qPc = "done"
    /\ qRaw.type = "string"
    /\ qRaw.s # <<>>
    /\ qRaw.s[1] \in WhiteSpace
    /\ \E j \in 1..Len(qRaw.s) : qRaw.s[j] \in ControlChars
    /\ \E j \in 1..Len(qRaw.s) : qRaw.s[j] = "QUOTE"
    /\ qResult.lines # <<>>

\* The analyzeDocument requests that handed analysisData, built from an
\* override map, to the analysis.
Rerun ==
    {r \in DOMAIN cAn : /\ cAn[r].pc \in {"analyze", "storeAnalysis"}
                        /\ cAn[r].correctedFields.given}

\* C17: when analyzeDocument is given an override map, the data handed to
\* the analysis holds, for every field the map names, the override as value
\* and 0.95 as confidence, and for every other field the value and the
\* confidence of the prior result.
C17_OverridesApplied ==
    \A r \in Rerun :
        \A f \in CatalogFields :
            IF f \in DOMAIN cAn[r].correctedFields.fields
            THEN /\ cAn[r].analysisData.extractedFields[f] = cAn[r].correctedFields.fields[f]
                 /\ ScoreOf(cAn[r].analysisData.confidenceScores, f) = 95 * (FinalOne \div 100)
            ELSE /\ cAn[r].analysisData.extractedFields[f]
                        = cAn[r].report.ocr_results.extractedFields[f]
                 /\ ScoreOf(cAn[r].analysisData.confidenceScores, f)
                        = ScoreOf(cAn[r].report.ocr_results.confidenceScores, f)

\* The required fields the amended result holds at the threshold or above.
HeldAtThreshold(analysisData) ==
    {f \in RequiredFields :
        /\ ~IsMissing(analysisData.extractedFields[f])
        /\ ScoreOf(analysisData.confidenceScores, f) >= PipelineMinConfidence}

\* C18: after a correction re-run the validation handed to the analysis is
\* recomputed from the amended fields: completeness is the share of the
\* four required fields held at the threshold or above, times 100; isValid
\* is true only if every required field is; and neither missingFields nor
\* lowConfidenceFields lists a field that is.
C18_ValidationRecomputed ==
    \A r \in Rerun :
        LET analysisData == cAn[r].analysisData
            validation == analysisData.validation
        IN  /\ validation.completeness
                  = (Cardinality(HeldAtThreshold(analysisData)) * 100) \div Len(RequiredOrder)
            /\ validation.isValid => HeldAtThreshold(analysisData) = RequiredFields
            /\ \A i \in 1..Len(validation.missingFields) :
                  validation.missingFields[i] \notin HeldAtThreshold(analysisData)
            /\ \A i \in 1..Len(validation.lowConfidenceFields) :
                  validation.lowConfidenceFields[i].field \notin HeldAtThreshold(analysisData)

\* extractTextFromDocument raised in uploadDocument.
HardFailure == cUp.pc = "markError" \/ cUp.response = "500 OCR processing failed"

ModelPassEnded == pPc = "returned" /\ pCompletion # Pending

\* A watch-list field is absent from the model's result.
WatchedAbsent ==
    \E f \in {"points", "appealDeadline", "vehiclePlate"} :
        pAi.extractedFields[f] \in {Undefined, Null, Str(<<>>)}

\* C20: when the model-assisted pass succeeds, the deterministic parser is
\* run if and only if a watch-list field (points, appealDeadline,
\* vehiclePlate) is absent from the model's result; when the pass fails,
\* the parser is run and its output alone forms the returned fields.
C20_ParserRunsIffNeeded ==
    ModelPassEnded =>
        IF pAi.success
        THEN /\ pParserRuns = (IF WatchedAbsent THEN 1 ELSE 0)
             /\ pLegacy = (IF WatchedAbsent THEN parseOCRTextWithConfidence(pText)
                           ELSE NoLegacy)
        ELSE /\ pParserRuns = 1
             /\ pLegacy = parseOCRTextWithConfidence(pText)
             /\ pResult.extractedFields = pLegacy.extractedFields
             /\ pResult.confidenceScores = pLegacy.confidenceScores

\* The pass succeeded with one watch-list field absent and the parser ran;
\* C20_WitnessSkipped: it succeeded with none absent and the parser did not.
C20_Witness ==
    /\ ModelPassEnded
    /\ pAi.success
    /\ Truthy(pAi.extractedFields["points"])
    /\ ~Truthy(pAi.extractedFields["vehiclePlate"])
    /\ pParserRuns = 1

C20_WitnessSkipped ==
    /\ ModelPassEnded
    /\ pAi.success
    /\ ~WatchedAbsent
    /\ pParserRuns = 0

C20_WitnessFailed ==
    /\ ModelPassEnded
    /\ ~pAi.success
    /\ pParserRuns = 1
    /\ \E f \in CatalogFields : Truthy(pResult.extractedFields[f])

\* C21: an invocation of extractTextFromDocument calls the model at most
\* once, and exactly once when the OCR returned text that is not blank;
\* no parse has run while the call is pending, and neither the model's
\* failure nor the catch block calls the model again.
C21_OneModelCall ==
    /\ pModelCalls \in {0, 1}
    /\ pPc = "ocr" => pModelCalls = 0
    /\ pPc = "model" => pModelCalls = 1 /\ pParserRuns = 0 /\ ~IsBlank(pText)
    /\ pPc \in {"fallbackOcr", "thrown"} => pModelCalls = 0
    /\ pPc = "returned" => pModelCalls = (IF pError = "none" THEN 1 ELSE 0)
    /\ pPc = "returned" /\ pError = "none" => ~IsBlank(pText)

C21_Witness ==
    /\ pPc = "returned"
    /\ pModelCalls = 1
    /\ ~pAi.success
    /\ pParserRuns = 1

C21_WitnessFallback ==
    /\ pPc = "returned"
    /\ pModelCalls = 0
    /\ pError = "no text"
    /\ pParserRuns = 1

\* C22: every invocation of extractTextFromDocument eventually returns or
\* throws, whether or not the model ever answers.
C22_EventuallyEnds == <>(pPc \in {"returned", "thrown"})

\* The external call raised, or its content was not JSON.
CallFailed == ModelPassEnded /\ pCompletion.kind \in {"raise", "malformed"}

\* C23: when the external call raises or its output is not parseable JSON,
\* extractFieldsWithAI reports failure with no extracted field and no
\* confidence score, and what extractTextFromDocument returns is built
\* from the parser's output only.
C23_AllOrNothing ==
    CallFailed =>
        /\ ~pAi.success
        /\ \A f \in CatalogFields : pAi.extractedFields[f] = Undefined
        /\ DOMAIN pAi.confidenceScores = {}
        /\ pResult.pipeline = "legacy"
        /\ pResult.extractedFields = parseOCRTextWithConfidence(pText).extractedFields
        /\ pResult.confidenceScores = parseOCRTextWithConfidence(pText).confidenceScores

C23_Witness ==
    /\ CallFailed
    /\ pCompletion.kind = "malformed"
    /\ ~pAi.success
    /\ Truthy(pResult.extractedFields["reportNumber"])

\* The required fields validateRequiredFields counted valid.
CountedValid ==
    {f \in RequiredFields :
        /\ \A i \in 1..Len(vValidation.missingFields) : vValidation.missingFields[i] # f
        /\ \A i \in 1..Len(vValidation.lowConfidenceFields) :
              vValidation.lowConfidenceFields[i].field # f}

\* C24: when validateRequiredFields is called without a threshold, a
\* required field that is present with confidence c is counted valid if
\* and only if c >= 0.6.
C24_DefaultThreshold ==
    vPc = "validated" /\ ~vGiven =>
        /\ \A f \in RequiredFields :
              vResult.extractedFields[f] \notin {Undefined, Null, Str(<<>>)} =>
                  (f \in CountedValid <=> vResult.confidenceScores[f] >= 6 * Milli * Milli)
        /\ 4 * vValidation.completeness = 100 * Cardinality(CountedValid)

\* C25: every confidence score in a result extractTextFromDocument returns
\* lies in [0, 1], the model's confidences, the symbol confidences and the
\* overall OCR confidence lying in [0, 1]: the scores derived from the
\* model, the gap-filled ones and those of the fallback.
C25_ScoresInRange ==
    pPc = "returned" =>
        \A f \in DOMAIN pResult.confidenceScores :
            /\ pResult.confidenceScores[f] >= 0
            /\ pResult.confidenceScores[f] <= FinalOne

\* An enhanced result with a score averaged with the detector's and a
\* gap-filled score.
C25_Witness ==
    /\ pPc = "returned"
    /\ pResult.pipeline = "enhanced"
    /\ pValues # <<>>
    /\ pOcrConfidence = Milli
    /\ pResult.confidenceScores["reportNumber"] > 0
    /\ pAi.extractedFields["points"] = Null
    /\ pResult.confidenceScores["points"] = getLineConfidence(<<700>>)

\* The matches of the k-th pattern family of the field extractValuePatterns
\* was called for; none where the field has no such family.
FamilyMatches(k) ==
    IF dFieldType \in DOMAIN patterns /\ k <= Len(patterns[dFieldType])
    THEN GlobalMatches(dText, patterns[dFieldType][k], 1)
    ELSE <<>>

\* C26: extractValuePatterns returns all the matches of the field's first
\* pattern family, then all those of the next, and so on through every
\* family, whether or not an earlier one matched; the empty sequence when
\* no family matches or the field has none.
C26_AllFamiliesConcatenated ==
    dPc = "extracted" =>
        dMatches = FamilyMatches(1) \o FamilyMatches(2) \o FamilyMatches(3)

\* An amount that both fineAmount families match, each in its own way.
C26_Witness ==
    /\ dPc = "extracted"
    /\ dFieldType = "fineAmount"
    /\ dText = <<"1", ",", "2", "5", "0", ".", "0", "0">>
    /\ dMatches = << <<"2", "5", "0", ".", "0", "0">>,
                     <<"1", ",", "2", "5", "0", ".", "0", "0">> >>

C26_WitnessNoFamily ==
    /\ dPc = "extracted"
    /\ dFieldType = "driverName"
    /\ dText # <<>>
    /\ dMatches = <<>>

\* C27: every candidate extractValuePatterns returns for reportNumber is a
\* run of six digits or more.
C27_ReportNumberSixDigits ==
    dPc = "extracted" /\ dFieldType = "reportNumber" =>
        \A k \in 1..Len(dMatches) :
            /\ Len(dMatches[k]) >= 6
            /\ \A i \in 1..Len(dMatches[k]) : dMatches[k][i] \in Digits

\* C28: whenever uploadDocument answers with success and ocrResults, the
\* stored report holds those results and has left the status 'uploaded'
\* for 'ocr_complete', so that an analyzeDocument that follows finds them.
C28_SuccessMeansStored ==
    cUp.response = "200 success" =>
        /\ cReport.ocr_results = cUp.ocrResults
        /\ cReport.ocr_results # NoOcrResults
        /\ cReport.status # "uploaded"

\* The answers by which analyzeDocument rejects a request.
Rejections == {"404 Report not found", "403 Forbidden", "400 OCR not completed"}

\* C29: under every interleaving of uploadDocument and two analyzeDocument
\* requests on one report, the stored report has analysis_results whenever
\* its status is 'complete' and ocr_results whenever its status is
\* 'ocr_complete', 'ai_processing' or 'complete'; and a request rejected as
\* not found, forbidden or 'OCR not completed' leaves the report as it was.
C29_StoreConsistent ==
    /\ [](/\ cReport.status = "complete" =>
                cReport.analysis_results # NoAnalysisResults
          /\ cReport.status \in {"ocr_complete", "ai_processing", "complete"} =>
                cReport.ocr_results # NoOcrResults)
    /\ [][\A r \in DOMAIN cAn :
             cAn'[r].response \in Rejections /\ cAn[r].response = "none" =>
                 cReport' = cReport]_vars

\* One request completed the analysis while the other, started later, has
\* put the status back to 'ai_processing'.
C29_Witness ==
    /\ DOMAIN cAn = {1, 2}
    /\ cAn[1].response = "200 success"
    /\ cAn[2].pc = "analyze"
    /\ cAn[2].report.status = "complete"
    /\ cReport.status = "ai_processing"
    /\ cReport.analysis_results # NoAnalysisResults

C29_WitnessRejected ==
    /\ DOMAIN cAn = {1, 2}
    /\ cAn[1].response = "403 Forbidden"
    /\ cAn[2].response = "200 success"
    /\ cReport.status = "complete"

\* The value validateFieldValue accepted for field f, as the result of
\* extractFieldsWithAI holds it.
Accepted(f) == aPc = "returned" /\ aResult.success /\ Truthy(aResult.extractedFields[f])

\* s is two digits, '/', two digits, '/', four digits.
IsNormalizedDate(s) ==
    /\ Len(s) = 10
    /\ s[3] = "/"
    /\ s[6] = "/"
    /\ \A i \in {1, 2, 4, 5, 7, 8, 9, 10} : s[i] \in Digits

\* C30: every violationDate validateFieldValue accepts has its day in 1..31
\* and its month in 1..12 and is returned as two-digit day, '/', two-digit
\* month, '/', four-digit year; every accepted fineAmount is an integer in
\* 50..10000 and every accepted points an integer in 0..12.
C30_AcceptedRanges ==
    /\ Accepted("violationDate") =>
          /\ IsNormalizedDate(aResult.extractedFields["violationDate"].s)
          /\ DecimalValue(SubSeq(aResult.extractedFields["violationDate"].s, 1, 2)) \in 1..31
          /\ DecimalValue(SubSeq(aResult.extractedFields["violationDate"].s, 4, 5)) \in 1..12
    /\ Accepted("fineAmount") =>
          /\ AllDigits(aResult.extractedFields["fineAmount"].s)
          /\ DecimalValue(aResult.extractedFields["fineAmount"].s) \in 50..10000
    /\ Accepted("points") =>
          /\ AllDigits(aResult.extractedFields["points"].s)
          /\ DecimalValue(aResult.extractedFields["points"].s) \in 0..12

=============================================================================
